---------------------------- MODULE Spec2Model ----------------------------
(***************************************************************************)
(* Model of the financial-document extraction pipeline of                  *)
(* src/backend/ai_assistant.py (class GPTComplianceAgent, the HEAD side of *)
(* the file).                                                              *)
(*                                                                         *)
(* Text is a sequence of symbols.  A symbol is a one-character string      *)
(* (a digit, ",", ".", ":", " ", the newline NL, the letter "a") or a      *)
(* whole word ("total", "capital", ...), whose length in characters is     *)
(* SymLen.  The regular expressions of the source are evaluated over this  *)
(* alphabet: a word of a pattern matches the same word of the text.        *)
(*                                                                         *)
(* A Python float is an integer count of hundredths (Unit = 100), so that  *)
(* round(x, 2) is exact.  None is the record NoneV.                        *)
(***************************************************************************)
EXTENDS Integers, Sequences, FiniteSets, TLC

VARIABLES
    ct_text,            \* _chunk_text: the text argument
    ct_max,             \* _chunk_text: the max_chars argument
    ct_out,             \* _chunk_text: the returned chunk list
    ct_pc,              \* _chunk_text: "call" before the call, "done" after it
    ag_in,              \* extract_structured_metrics: the chunk_summaries argument
    ag_out,             \* extract_structured_metrics: the returned dict
    ag_pc,              \* extract_structured_metrics: "call", then "done"
    pdf,                \* summarize_document: the document behind pdf_bytes
    chunk_max_chars,    \* CHUNK_MAX_CHARS, read from GPT_CHUNK_MAX_CHARS
    gpt_max_workers,    \* the environment's GPT_MAX_WORKERS
    pc,                 \* summarize_document: where the call stands
    full_text,          \* summarize_document: the extracted text
    sd_chunks,          \* summarize_document: chunks, the chunks of full_text
    futures,            \* the state of the future of each chunk
    finished,           \* as_completed: futures found finished at its start
    waiter,             \* as_completed: waiter.finished_futures
    sd_summaries,       \* summarize_document: chunk_summaries, as collected
    llm_out,            \* the text the LLM call of the synthesis returned
    calls,              \* how often _chunk_text, summarize_chunk, _call_gpt ran
    fs,                 \* the FinancialSummary of the call
    pk_catalogue,       \* model discovery alone: the provider's model list
    pk_out,             \* model discovery alone: the model returned
    pk_pc,              \* model discovery alone: "call", then "done"
    cache,              \* _AVAILABLE_MODEL_CACHE
    catalogue,          \* the model list the provider serves now
    threads,            \* the calls of _get_available_model of each thread
    writes,             \* how often _AVAILABLE_MODEL_CACHE was assigned
    cg_config,          \* _call_gpt: retries, API key, service account
    cg_pc,              \* _call_gpt: where the call stands
    cg_candidate,       \* _call_gpt: the place of the candidate in its list
    cg_attempt,         \* _call_gpt: the attempt number of the candidate
    cg_available,       \* _call_gpt: the listed generation models
    cg_tried,           \* _call_gpt: the candidate of each attempt made
    cg_texts,           \* _call_gpt: the texts that the replies so far held
    cg_waits,           \* _call_gpt: the seconds slept, one entry per sleep
    cg_request,         \* _call_gpt: the last HTTP request and its reply
    cg_http,            \* _call_gpt: how many HTTP requests were sent
    cg_result,          \* _call_gpt: the value returned
    pn_in,              \* parse_number: the body and the form of the token
    pn_out,             \* parse_number: the value returned
    pn_pc,              \* parse_number: where the call stands
    ga_in,              \* GPTComplianceAgent(): GEMINI_MODEL, the model argument, the list request
    ga_model,           \* GPTComplianceAgent(): self.model
    ga_pc,              \* GPTComplianceAgent(): where the construction stands
    sb_in,              \* submit_data: the request, the AI metrics, the database's answer
    sb_db,              \* submit_data: the submissions persisted
    sb_resp,            \* submit_data: the response
    rv_in,              \* approve/reject: the request and the database's answers
    rv_db,              \* approve/reject: the submission and the notifications persisted
    rv_resp, rv_pc             \* approve/reject: the response

ctvars == <<ct_text, ct_max, ct_out, ct_pc>>

agvars == <<ag_in, ag_out, ag_pc>>

sdvars ==
    <<pdf, chunk_max_chars, gpt_max_workers, pc, full_text, sd_chunks, futures,
      finished, waiter, sd_summaries, llm_out, calls, fs>>

pkvars == <<pk_catalogue, pk_out, pk_pc>>

dvars == <<cache, catalogue, threads, writes>>

cgvars ==
    <<cg_config, cg_pc, cg_candidate, cg_attempt, cg_available, cg_tried, cg_texts, cg_waits,
      cg_request, cg_http, cg_result>>

llmvars == <<pkvars, dvars, cgvars>>

pnvars == <<pn_in, pn_out, pn_pc>>

gavars == <<ga_in, ga_model, ga_pc>>

sbvars == <<sb_in, sb_db, sb_resp>>

rvvars == <<rv_in, rv_db, rv_resp, rv_pc>>

restvars == <<pnvars, gavars, sbvars, rvvars>>

vars == <<ctvars, agvars, sdvars, llmvars, restvars>>

(***************************************************************************)
(* Bounds of the model.                                                    *)
(***************************************************************************)
MaxTextLen == 11    \* longest text handed to _chunk_text in SpecChunk
MaxChars == 5       \* largest max_chars handed to _chunk_text in SpecChunk
MaxPages == 2       \* most pages of a document handed to summarize_document
MaxSummaries == 3   \* longest list handed to extract_structured_metrics
MaxCatalogue == 3   \* most entries of a model list handed to model discovery
MaxCalls == 2       \* most calls of _get_available_model a thread makes
MaxRetries == 6     \* largest GPT_RETRIES of a call of _call_gpt
MaxBody == 2        \* most characters of the number of a token handed to parse_number

(***************************************************************************)
(* Text primitives.                                                        *)
(***************************************************************************)
NL == "\n"

\* The words of the alphabet (matching is case-insensitive, re.IGNORECASE, so a
\* word stands for all its spellings), by length in characters.
Words3 == {"gwp", "net", "tax", "pbt"}
Words4 == {"paid", "note"}
Words5 == {"total", "gross", "costs", "title", "notes"}
Words6 == {"equity", "claims", "income", "profit", "before", "report"}
Words7 == {"capital", "written", "premium", "returns", "expense", "opinion",
           "million", "billion"}
Words8 == {"auditors", "thousand", "expenses"}
Words9 == {"operating"}
Words10 == {"investment", "commission"}
Words11 == {"liabilities", "commissions", "unqualified", "key_numbers"}
Words12 == {"shareholders"}
Words13 == {"missing_items"}

WordLen(w) ==
    CASE w \in Words3 -> 3   [] w \in Words4 -> 4    [] w \in Words5 -> 5
      [] w \in Words6 -> 6   [] w \in Words7 -> 7    [] w \in Words8 -> 8
      [] w \in Words9 -> 9   [] w \in Words10 -> 10  [] w \in Words11 -> 11
      [] w \in Words12 -> 12 [] w \in Words13 -> 13

Words ==
    Words3 \cup Words4 \cup Words5 \cup Words6 \cup Words7 \cup Words8 \cup Words9
        \cup Words10 \cup Words11 \cup Words12 \cup Words13

SymLen(c) == IF c \in Words THEN WordLen(c) ELSE 1

\* len(s) of a Python string
RECURSIVE StrLen(_)
StrLen(s) == IF s = <<>> THEN 0 ELSE SymLen(Head(s)) + StrLen(Tail(s))

\* sep.join(parts)
RECURSIVE Join(_, _)
Join(sep, parts) ==
    IF parts = <<>> THEN <<>>
    ELSE IF Len(parts) = 1 THEN parts[1]
    ELSE parts[1] \o sep \o Join(sep, Tail(parts))

\* number of consecutive newlines of text from position i on
RECURSIVE NLRun(_, _)
NLRun(text, i) ==
    IF i > Len(text) \/ text[i] # NL THEN 0 ELSE 1 + NLRun(text, i + 1)

\* re.split(r"\n{2,}", text) from position i on, cur being the piece so far
RECURSIVE SplitFrom(_, _, _)
SplitFrom(text, i, cur) ==
    IF i > Len(text) THEN <<cur>>
    ELSE IF NLRun(text, i) >= 2
         THEN <<cur>> \o SplitFrom(text, i + NLRun(text, i), <<>>)
         ELSE SplitFrom(text, i + 1, Append(cur, text[i]))

SplitParagraphs(text) == SplitFrom(text, 1, <<>>)

(***************************************************************************)
(* _chunk_text                                                             *)
(***************************************************************************)
\* the test of line 213 with the paragraph counted alone
ShouldFlushAlone(current_len, plen, max_chars, current) ==
    plen > max_chars /\ current # <<>>

\* line 213: the paragraph does not fit and the current chunk is not empty
ShouldFlush(current_len, plen, max_chars, current) ==
    current_len + plen > max_chars /\ current # <<>>

\* a restart that forgets the length of the paragraph it starts with
LenAfterFlushZero(plen) == 0

\* line 216: the length of the chunk restarted with paragraph p
LenAfterFlush(plen) == plen

\* a restart that loses the paragraph that did not fit
CurrentAfterFlushEmpty(p) == <<>>

\* line 215: current = [p]
CurrentAfterFlush(p) == <<p>>

\* the for loop of lines 211-219 from paragraph k on, then lines 220-221
RECURSIVE ChunkLoop(_, _, _, _, _, _)
ChunkLoop(paragraphs, k, chunks, current, current_len, max_chars) ==
    IF k > Len(paragraphs)
    THEN IF current # <<>> THEN Append(chunks, Join(<<NL, NL>>, current)) ELSE chunks
    ELSE LET p == paragraphs[k]
             plen == StrLen(p) + 2
         IN  IF ShouldFlush(current_len, plen, max_chars, current)
             THEN ChunkLoop(paragraphs, k + 1,
                            Append(chunks, Join(<<NL, NL>>, current)),
                            CurrentAfterFlush(p), LenAfterFlush(plen), max_chars)
             ELSE ChunkLoop(paragraphs, k + 1, chunks,
                            Append(current, p), current_len + plen, max_chars)

ChunkText(text, max_chars) ==
    IF text = <<>> THEN <<>>
    ELSE ChunkLoop(SplitParagraphs(text), 1, <<>>, <<>>, 0, max_chars)

(***************************************************************************)
(* Values.  None, a float (in hundredths) and a bool.                      *)
(***************************************************************************)
Unit == 100

NoneV == [t |-> "none"]
Num(n) == [t |-> "num", v |-> n]
Bool(b) == [t |-> "bool", v |-> b]

\* Python's truth value of None, a float or a bool
Truthy(x) ==
    CASE x.t = "none" -> FALSE
      [] x.t = "num" -> x.v # 0
      [] x.t = "bool" -> x.v

(***************************************************************************)
(* parse_number (lines 352-360 and 444-452, the same code twice)           *)
(***************************************************************************)
DigitSeq == <<"0", "1", "2", "3", "4", "5", "6", "7", "8", "9">>
Digits == {DigitSeq[i] : i \in 1..10}
DigitVal(c) == (CHOOSE i \in 1..10 : DigitSeq[i] = c) - 1

\* how many letters e a word holds
ECount(w) ==
    CASE w \in {"shareholders", "investment", "expense", "expenses", "before",
                "key_numbers"} -> 2
      [] w \in {"equity", "liabilities", "written", "premium", "net", "income",
                "returns", "operating", "unqualified", "note", "report", "title",
                "notes", "missing_items"} -> 1
      [] OTHER -> 0

\* what the two re.sub calls of lines 355-356 leave of one symbol: "," and
\* white space go, then everything but digits, ".", "-", "e" and "E"
KeptChars(c) ==
    IF c \in Digits \cup {".", "-", "e", "E"} THEN <<c>>
    ELSE IF c \in Words THEN [i \in 1..ECount(c) |-> "e"]
    ELSE <<>>

RECURSIVE CleanNumber(_)
CleanNumber(s) ==
    IF s = <<>> THEN <<>> ELSE KeptChars(Head(s)) \o CleanNumber(Tail(s))

RECURSIVE DigitsVal(_)
DigitsVal(ds) ==
    IF ds = <<>> THEN 0 ELSE DigitsVal(SubSeq(ds, 1, Len(ds) - 1)) * 10 + DigitVal(ds[Len(ds)])

RECURSIVE Pow10(_)
Pow10(n) == IF n <= 0 THEN 1 ELSE 10 * Pow10(n - 1)

AllDigits(s) == \A i \in DOMAIN s : s[i] \in Digits

\* the places of character c in s
Places(s, c) == {i \in DOMAIN s : s[i] = c}

\* float() of an unsigned decimal without exponent, in hundredths; digits
\* after the second decimal place are dropped
UnsignedDecimal(s) ==
    LET dots == Places(s, ".")
    IN  IF Cardinality(dots) > 1 THEN NoneV
        ELSE IF dots = {}
             THEN IF s # <<>> /\ AllDigits(s) THEN Num(DigitsVal(s) * Unit) ELSE NoneV
             ELSE LET d == CHOOSE i \in dots : TRUE
                      ip == SubSeq(s, 1, d - 1)
                      fp == SubSeq(s, d + 1, Len(s))
                      f2 == SubSeq(fp \o <<"0", "0">>, 1, 2)
                  IN  IF AllDigits(ip) /\ AllDigits(fp) /\ Len(ip) + Len(fp) > 0
                      THEN Num(DigitsVal(ip) * Unit + DigitsVal(f2))
                      ELSE NoneV

\* float() of a decimal with an optional minus sign
SignedDecimal(s) ==
    IF s # <<>> /\ Head(s) = "-"
    THEN LET u == UnsignedDecimal(Tail(s))
         IN  IF u = NoneV THEN NoneV ELSE Num(0 - u.v)
    ELSE UnsignedDecimal(s)

\* float(s) for s over digits, ".", "-", "e", "E": None where Python raises
FloatOf(s) ==
    LET es == Places(s, "e") \cup Places(s, "E")
    IN  IF es = {} THEN SignedDecimal(s)
        ELSE IF Cardinality(es) > 1 THEN NoneV
        ELSE LET e == CHOOSE i \in es : TRUE
                 m == SignedDecimal(SubSeq(s, 1, e - 1))
                 x == SubSeq(s, e + 1, Len(s))
                 neg == x # <<>> /\ Head(x) = "-"
                 xd == IF neg THEN Tail(x) ELSE x
             IN  IF m = NoneV \/ xd = <<>> \/ ~AllDigits(xd) THEN NoneV
                 ELSE IF neg THEN Num(m.v \div Pow10(DigitsVal(xd)))
                 ELSE Num(m.v * Pow10(DigitsVal(xd)))

\* parse_number(s) for a string s
ParseNumber(s) == IF s = <<>> THEN NoneV ELSE FloatOf(CleanNumber(s))

\* the decimal digits of a natural number
RECURSIVE NatStr(_)
NatStr(n) ==
    IF n < 10 THEN <<DigitSeq[n + 1]>>
    ELSE Append(NatStr(n \div 10), DigitSeq[(n % 10) + 1])

\* str(x) of a float x (json.dumps writes the same digits)
FloatStr(v) ==
    LET a == IF v < 0 THEN 0 - v ELSE v
        f == a % Unit
        frac == IF f % 10 = 0 THEN NatStr(f \div 10) ELSE NatStr(f \div 10) \o NatStr(f % 10)
    IN  (IF v < 0 THEN <<"-">> ELSE <<>>) \o NatStr(a \div Unit) \o <<".">> \o frac

\* parse_number(v) for a float v, as line 472 calls it: "not v" holds for
\* 0.0, anything else is parsed from str(v)
ParseNumberOfFloat(v) == IF v = 0 THEN NoneV ELSE ParseNumber(FloatStr(v))

(***************************************************************************)
(* Regular expressions over symbols.                                       *)
(***************************************************************************)
Space == {" ", NL}                      \* \s
SepChunk == {":", " ", NL, "="}         \* [:\s=] of lines 342-349
SepFallback == {":", " ", NL}           \* [:\s] of lines 519-526
NumChars == Digits \cup {",", "."}      \* [0-9,\.]

NoMatch == [ok |-> FALSE, cap |-> <<>>]
Match(c) == [ok |-> TRUE, cap |-> c]

\* the first place from i on whose symbol is not in S
RECURSIVE SkipWhile(_, _, _)
SkipWhile(text, i, S) ==
    IF i <= Len(text) /\ text[i] \in S THEN SkipWhile(text, i + 1, S) ELSE i

\* w1\s+w2\s+...wn at place i: the place after the match, 0 without one
RECURSIVE MatchWords(_, _, _)
MatchWords(text, i, ws) ==
    IF i > Len(text) \/ text[i] # Head(ws) THEN 0
    ELSE IF Len(ws) = 1 THEN i + 1
    ELSE LET j == SkipWhile(text, i + 1, Space)
         IN  IF j = i + 1 THEN 0 ELSE MatchWords(text, j, Tail(ws))

\* (?:million|billion|thousand|m|b|k) at a symbol, case-insensitive: what it
\* takes of the symbol, <<>> without a match
ScaleAt(c) ==
    CASE c \in {"million", "billion", "thousand", "m", "b", "k"} -> <<c>>
      [] c \in {"M", "missing_items"} -> <<"m">>
      [] c \in {"B", "before"} -> <<"b">>
      [] c \in {"K", "key_numbers"} -> <<"k">>
      [] OTHER -> <<>>

\* ([0-9,\.]+(?:\s+(?:million|...))?) at place i, where a number starts
NumberWithScaleAt(text, i) ==
    LET k == SkipWhile(text, i, NumChars)
        s == SkipWhile(text, k, Space)
    IN  IF s > k /\ s <= Len(text) /\ ScaleAt(text[s]) # <<>>
        THEN SubSeq(text, i, s - 1) \o ScaleAt(text[s])
        ELSE SubSeq(text, i, k - 1)

\* ([0-9,\.]+) at place i, where a number starts
NumberAt(text, i) == SubSeq(text, i, SkipWhile(text, i, NumChars) - 1)

\* one alternative of a pattern of lines 342-349 at place i:
\* words [:\s=]+ \s* (number with scale)
ChunkAltAt(text, i, ws) ==
    LET e == MatchWords(text, i, ws)
        j == SkipWhile(text, e, SepChunk)
    IN  IF e # 0 /\ j > e /\ j <= Len(text) /\ text[j] \in NumChars
        THEN Match(NumberWithScaleAt(text, j))
        ELSE NoMatch

\* the alternatives of a pattern at place i, in their order
RECURSIVE ChunkAltsAt(_, _, _)
ChunkAltsAt(text, i, alts) ==
    IF alts = <<>> THEN NoMatch
    ELSE IF ChunkAltAt(text, i, Head(alts)).ok THEN ChunkAltAt(text, i, Head(alts))
    ELSE ChunkAltsAt(text, i, Tail(alts))

\* re.findall(pattern, chunk_text, re.IGNORECASE)[0]: the leftmost match
RECURSIVE ChunkFirstMatch(_, _, _)
ChunkFirstMatch(text, i, alts) ==
    IF i > Len(text) THEN NoMatch
    ELSE IF ChunkAltsAt(text, i, alts).ok THEN ChunkAltsAt(text, i, alts)
    ELSE ChunkFirstMatch(text, i + 1, alts)

(***************************************************************************)
(* summarize_chunk                                                         *)
(***************************************************************************)
\* the keys of patterns (lines 341-350), in their order
ChunkKeys ==
    <<"Capital", "Liabilities", "GWP", "Net Claims Paid", "Investment Income",
      "Commission Expense", "Operating Expenses", "Profit Before Tax">>

\* the label alternatives of each pattern
ChunkPattern(key) ==
    CASE key = "Capital" ->
            << <<"total", "capital">>, <<"shareholders", "equity">>, <<"total", "equity">> >>
      [] key = "Liabilities" -> << <<"total", "liabilities">> >>
      [] key = "GWP" -> << <<"gross", "written", "premium">>, <<"gwp">> >>
      [] key = "Net Claims Paid" -> << <<"net", "claims", "paid">>, <<"net", "claims">> >>
      [] key = "Investment Income" ->
            << <<"investment", "income">>, <<"investment", "returns">> >>
      [] key = "Commission Expense" -> << <<"commission", "expense">>, <<"commissions">> >>
      [] key = "Operating Expenses" ->
            << <<"operating", "expense">>, <<"operating", "costs">> >>
      [] key = "Profit Before Tax" -> << <<"profit", "before", "tax">>, <<"pbt">> >>

\* lines 364-366: the parsed first match of the key's pattern, None without
ChunkValue(chunk_text, key) ==
    LET m == ChunkFirstMatch(chunk_text, 1, ChunkPattern(key))
    IN  IF m.ok THEN ParseNumber(m.cap) ELSE NoneV

\* lines 363-368: the key_numbers dict
KeyNumbers(chunk_text) ==
    LET found == {i \in DOMAIN ChunkKeys : ChunkValue(chunk_text, ChunkKeys[i]) # NoneV}
    IN  [k \in {ChunkKeys[i] : i \in found} |-> ChunkValue(chunk_text, k).v]

\* text.split('\n') from place i on, cur being the line so far
RECURSIVE SplitLinesFrom(_, _, _)
SplitLinesFrom(text, i, cur) ==
    IF i > Len(text) THEN <<cur>>
    ELSE IF text[i] = NL THEN <<cur>> \o SplitLinesFrom(text, i + 1, <<>>)
    ELSE SplitLinesFrom(text, i + 1, Append(cur, text[i]))

SplitLines(text) == SplitLinesFrom(text, 1, <<>>)

TitleMaxChars == 100

\* s[:n]: the symbols of s that lie within its first n characters
RECURSIVE Prefix(_, _)
Prefix(s, n) ==
    IF s = <<>> \/ SymLen(Head(s)) > n THEN <<>>
    ELSE <<Head(s)>> \o Prefix(Tail(s), n - SymLen(Head(s)))

\* line 377: the line holds 'note', 'remark', 'disclosure' or 'important'
HasNoteKeyword(line) == \E i \in DOMAIN line : line[i] \in {"note", "notes"}

\* line.strip()
RECURSIVE Strip(_)
Strip(line) ==
    IF line = <<>> THEN <<>>
    ELSE IF Head(line) \in Space THEN Strip(Tail(line))
    ELSE IF line[Len(line)] \in Space THEN Strip(SubSeq(line, 1, Len(line) - 1))
    ELSE line

\* lines 375-378: the note lines of the chunk, stripped
RECURSIVE NoteLines(_)
NoteLines(lines) ==
    IF lines = <<>> THEN <<>>
    ELSE (IF HasNoteKeyword(Head(lines)) THEN <<Strip(Head(lines))>> ELSE <<>>)
            \o NoteLines(Tail(lines))

MaxNotes == 3

\* the dict of lines 381-386, which json.dumps writes and json.loads reads back
SummarizeChunk(chunk_text) ==
    LET lines == SplitLines(chunk_text)
        notes == NoteLines(lines)
    IN  [title |-> Prefix(lines[1], TitleMaxChars),
         key_numbers |-> KeyNumbers(chunk_text),
         notes |-> SubSeq(notes, 1, IF Len(notes) < MaxNotes THEN Len(notes) ELSE MaxNotes),
         missing_items |-> <<>>]

(***************************************************************************)
(* json.dumps of a chunk summary: the text the fallback patterns search.   *)
(***************************************************************************)
\* a key of key_numbers as json.dumps writes it, lower-cased
KeyWords(key) ==
    CASE key = "Capital" -> <<"capital">>
      [] key = "Liabilities" -> <<"liabilities">>
      [] key = "GWP" -> <<"gwp">>
      [] key = "Net Claims Paid" -> <<"net", " ", "claims", " ", "paid">>
      [] key = "Investment Income" -> <<"investment", " ", "income">>
      [] key = "Commission Expense" -> <<"commission", " ", "expense">>
      [] key = "Operating Expenses" -> <<"operating", " ", "expenses">>
      [] key = "Profit Before Tax" -> <<"profit", " ", "before", " ", "tax">>

Quoted(s) == <<"\"">> \o s \o <<"\"">>

\* the items "key": value of key_numbers from key i on, in insertion order
RECURSIVE JsonKeyNumbers(_, _, _)
JsonKeyNumbers(kn, i, first) ==
    IF i > Len(ChunkKeys) THEN <<>>
    ELSE IF ChunkKeys[i] \notin DOMAIN kn THEN JsonKeyNumbers(kn, i + 1, first)
    ELSE (IF first THEN <<>> ELSE <<",", " ">>)
            \o Quoted(KeyWords(ChunkKeys[i])) \o <<":", " ">> \o FloatStr(kn[ChunkKeys[i]])
            \o JsonKeyNumbers(kn, i + 1, FALSE)

JsonStrings(ss) == Join(<<",", " ">>, [i \in DOMAIN ss |-> Quoted(ss[i])])

\* json.dumps(result, ensure_ascii=False) of line 388
JsonDumps(summary) ==
    <<"{">> \o Quoted(<<"title">>) \o <<":", " ">> \o Quoted(summary.title)
        \o <<",", " ">> \o Quoted(<<"key_numbers">>) \o <<":", " ", "{">>
        \o JsonKeyNumbers(summary.key_numbers, 1, TRUE) \o <<"}">>
        \o <<",", " ">> \o Quoted(<<"notes">>) \o <<":", " ", "[">>
        \o JsonStrings(summary.notes) \o <<"]">>
        \o <<",", " ">> \o Quoted(<<"missing_items">>) \o <<":", " ", "[", "]", "}">>

(***************************************************************************)
(* extract_structured_metrics                                              *)
(***************************************************************************)
\* schema_keys, lines 417-431
SchemaKeys ==
    <<"capital", "liabilities", "solvency_ratio", "gwp", "net_claims_paid",
      "investment_income_total", "commission_expense_total",
      "operating_expenses_total", "profit_before_tax",
      "contingency_reserve_statutory", "ibnr_reserve_gross",
      "related_party_net_exposure", "auditors_unqualified_opinion">>

Canonical == {SchemaKeys[i] : i \in DOMAIN SchemaKeys}

\* word w holds the string sub
Contains(w, sub) ==
    \/ w = sub
    \/ <<w, sub>> \in {<<"liabilities", "liabil">>, <<"expenses", "expense">>,
                       <<"commissions", "commission">>}

\* sub in k.lower()
HasSub(key, sub) == \E i \in DOMAIN KeyWords(key) : Contains(KeyWords(key)[i], sub)

\* the if/elif chain of lines 471-510: the schema key a key_numbers key
\* feeds, "" when it feeds none
CanonOfKey(k) ==
    IF HasSub(k, "capital") \/ HasSub(k, "equity") THEN "capital"
    ELSE IF HasSub(k, "liabil") THEN "liabilities"
    ELSE IF HasSub(k, "gwp") \/ HasSub(k, "gross.*written") THEN "gwp"
    ELSE IF HasSub(k, "claims") /\ HasSub(k, "paid") THEN "net_claims_paid"
    ELSE IF HasSub(k, "investment") /\ HasSub(k, "income") THEN "investment_income_total"
    ELSE IF HasSub(k, "commission") THEN "commission_expense_total"
    ELSE IF HasSub(k, "operating") /\ HasSub(k, "expense") THEN "operating_expenses_total"
    ELSE IF HasSub(k, "profit") /\ HasSub(k, "tax") THEN "profit_before_tax"
    ELSE ""

\* lines 473, 478, ...: "if val and key not in extracted_metrics"
KeepsValue(val, key, extracted) == Truthy(val) /\ key \notin DOMAIN extracted

\* lines 468-510 for the items of one key_numbers dict from key i on
RECURSIVE KeyNumbersItems(_, _, _)
KeyNumbersItems(extracted, kn, i) ==
    IF i > Len(ChunkKeys) THEN extracted
    ELSE IF ChunkKeys[i] \notin DOMAIN kn THEN KeyNumbersItems(extracted, kn, i + 1)
    ELSE LET k == ChunkKeys[i]
             c == CanonOfKey(k)
             val == ParseNumberOfFloat(kn[k])
         IN  IF c # "" /\ KeepsValue(val, c, extracted)
             THEN KeyNumbersItems(extracted @@ (c :> val), kn, i + 1)
             ELSE KeyNumbersItems(extracted, kn, i + 1)

\* lines 457-512: the key_numbers of the summaries, in list order
RECURSIVE KeyNumbersPass(_, _)
KeyNumbersPass(extracted, summaries) ==
    IF summaries = <<>> THEN extracted
    ELSE KeyNumbersPass(KeyNumbersItems(extracted, Head(summaries).key_numbers, 1),
                        Tail(summaries))

\* the keys of patterns (lines 518-528), in their order
FallbackKeys ==
    <<"capital", "liabilities", "gwp", "net_claims_paid", "investment_income_total",
      "commission_expense_total", "operating_expenses_total", "profit_before_tax",
      "auditors_unqualified_opinion">>

\* the patterns of a key: each the words that ".*" joins; but for
\* auditors_unqualified_opinion, [:\s]+([0-9,\.]+) follows the last word
FallbackPatterns(key) ==
    CASE key = "capital" -> << <<"capital">>, <<"equity">>, <<"shareholders", "equity">> >>
      [] key = "liabilities" -> << <<"liabilities">>, <<"total", "liabilities">> >>
      [] key = "gwp" -> << <<"gwp">>, <<"gross", "written", "premium">> >>
      [] key = "net_claims_paid" -> << <<"net", "claims", "paid">>, <<"claims", "paid">> >>
      [] key = "investment_income_total" ->
            << <<"investment", "income">>, <<"total", "investment", "income">> >>
      [] key = "commission_expense_total" ->
            << <<"commission", "expense">>, <<"commissions", "paid">> >>
      [] key = "operating_expenses_total" ->
            << <<"operating", "expense">>, <<"total", "operating", "expense">> >>
      [] key = "profit_before_tax" -> << <<"profit", "before", "tax">>, <<"pbt">> >>
      [] key = "auditors_unqualified_opinion" ->
            << <<"unqualified", "opinion">>, <<"auditors", "opinion", "unqualified">> >>

\* the words ws occur in this order, ".*" between them, within line[1..n]
RECURSIVE WordsInOrder(_, _, _)
WordsInOrder(line, n, ws) ==
    IF ws = <<>> THEN TRUE
    ELSE LET at == {i \in 1..n : Contains(line[i], ws[Len(ws)])}
         IN  at # {} /\ LET last == CHOOSE i \in at : \A j \in at : j <= i
                        IN  WordsInOrder(line, last - 1, SubSeq(ws, 1, Len(ws) - 1))

\* the places of a line where word[:\s]+([0-9,\.]+) matches
LabelPlaces(line, word) ==
    {j \in DOMAIN line :
        /\ line[j] = word
        /\ LET n == SkipWhile(line, j + 1, SepFallback)
           IN  n > j + 1 /\ n <= Len(line) /\ line[n] \in NumChars}

\* the group of the leftmost match of a pattern with a group in one line:
\* a one-word pattern matches at its first place; behind a greedy ".*" the
\* last word matches at its last place
LineFirstMatch(line, ws) ==
    LET places == LabelPlaces(line, ws[Len(ws)])
        ok == {j \in places : WordsInOrder(line, j - 1, SubSeq(ws, 1, Len(ws) - 1))}
    IN  IF ok = {} THEN NoMatch
        ELSE LET j == IF Len(ws) = 1
                      THEN CHOOSE i \in ok : \A x \in ok : i <= x
                      ELSE CHOOSE i \in ok : \A x \in ok : x <= i
             IN  Match(NumberAt(line, SkipWhile(line, j + 1, SepFallback)))

\* re.findall(pattern, all_summaries, re.IGNORECASE)[0]: "." stops at the
\* line ends, and each summary is one line of all_summaries (line 437)
RECURSIVE FallbackFirstMatch(_, _)
FallbackFirstMatch(lines, ws) ==
    IF lines = <<>> THEN NoMatch
    ELSE IF LineFirstMatch(Head(lines), ws).ok THEN LineFirstMatch(Head(lines), ws)
    ELSE FallbackFirstMatch(Tail(lines), ws)

\* a pattern without group matches somewhere
FallbackMatches(lines, ws) ==
    \E i \in DOMAIN lines : WordsInOrder(lines[i], Len(lines[i]), ws)

\* lines 534-544 for a numeric key: the patterns from pattern p on
RECURSIVE FallbackNumber(_, _, _)
FallbackNumber(lines, pats, p) ==
    IF p > Len(pats) THEN NoneV
    ELSE LET m == FallbackFirstMatch(lines, pats[p])
         IN  IF m.ok /\ ParseNumber(m.cap) # NoneV THEN ParseNumber(m.cap)
             ELSE FallbackNumber(lines, pats, p + 1)

\* lines 534-544 for one key, with False for an opinion that is not found
FallbackValueFalse(lines, key) ==
    IF key = "auditors_unqualified_opinion"
    THEN Bool(\E p \in DOMAIN FallbackPatterns(key) : FallbackMatches(lines, FallbackPatterns(key)[p]))
    ELSE FallbackNumber(lines, FallbackPatterns(key), 1)

\* lines 534-544 for one key
FallbackValue(lines, key) ==
    IF key = "auditors_unqualified_opinion"
    THEN IF \E p \in DOMAIN FallbackPatterns(key) : FallbackMatches(lines, FallbackPatterns(key)[p])
         THEN Bool(TRUE) ELSE NoneV
    ELSE FallbackNumber(lines, FallbackPatterns(key), 1)

\* lines 532-533 without the test: no key is skipped
FallbackSkipsNever(key, extracted) == FALSE

\* lines 532-533: a key already in extracted_metrics is skipped
FallbackSkips(key, extracted) == key \in DOMAIN extracted

\* lines 531-544: the fallback for the keys from key i on
RECURSIVE FallbackPass(_, _, _)
FallbackPass(extracted, lines, i) ==
    IF i > Len(FallbackKeys) THEN extracted
    ELSE LET key == FallbackKeys[i]
             val == FallbackValue(lines, key)
         IN  IF FallbackSkips(key, extracted) \/ val = NoneV
             THEN FallbackPass(extracted, lines, i + 1)
             ELSE FallbackPass((key :> val) @@ [k \in DOMAIN extracted \ {key} |-> extracted[k]],
                               lines, i + 1)

\* four decimal digits of n / d (0 <= n < d), and what remains of n
RECURSIVE Decimals(_, _, _)
Decimals(n, d, places) ==
    IF places = 0 THEN [q |-> 0, r |-> n]
    ELSE LET rest == Decimals(n, d, places - 1)
         IN  [q |-> rest.q * 10 + (rest.r * 10) \div d, r |-> (rest.r * 10) % d]

\* round((num / den) * 100, 2) in hundredths, by long division, a half
\* going to the even side
RoundedPercent(num, den) ==
    LET a == IF num < 0 THEN 0 - num ELSE num
        l == IF den < 0 THEN 0 - den ELSE den
        dec == Decimals(a % l, l, 4)
        mag == (a \div l) * 10000 + dec.q
        up == 2 * dec.r > l \/ (2 * dec.r = l /\ mag % 2 = 1)
        rounded == IF up THEN mag + 1 ELSE mag
    IN  IF (num < 0) = (den < 0) THEN rounded ELSE 0 - rounded

\* capital as a percentage of liabilities
SolvencyRatioOfCapital(capital, liabilities) == RoundedPercent(capital, liabilities)

\* line 552: round(((capital - liabilities) / liabilities) * 100, 2)
SolvencyRatio(capital, liabilities) == RoundedPercent(capital - liabilities, liabilities)

\* lines 547-554
WithSolvency(extracted) ==
    IF /\ "capital" \in DOMAIN extracted
       /\ "liabilities" \in DOMAIN extracted
       /\ extracted["capital"] # NoneV
       /\ extracted["liabilities"] # NoneV
       /\ extracted["liabilities"].v # 0
    THEN ("solvency_ratio" :> Num(SolvencyRatio(extracted["capital"].v, extracted["liabilities"].v)))
         @@ extracted
    ELSE extracted

\* lines 559-560: every schema key, None where nothing was extracted
WithSchemaKeys(extracted) ==
    [k \in Canonical \cup DOMAIN extracted |->
        IF k \in DOMAIN extracted THEN extracted[k] ELSE NoneV]

\* all_summaries, line 437, by its lines
SummaryLines(chunk_summaries) == [i \in DOMAIN chunk_summaries |-> JsonDumps(chunk_summaries[i])]

ExtractStructuredMetrics(chunk_summaries) ==
    WithSchemaKeys(
        WithSolvency(
            FallbackPass(KeyNumbersPass(<<>>, chunk_summaries),
                         SummaryLines(chunk_summaries), 1)))

(***************************************************************************)
(* JSON values and Python dicts.  A dict is a function on its keys; a      *)
(* value carries its type: NoneV, Num, Bool, Str, List or Dict.            *)
(***************************************************************************)
EmptyDict == [k \in {} |-> NoneV]
Dict(d) == [t |-> "dict", d |-> d]
List(items) == [t |-> "list", items |-> items]
Str(s) == [t |-> "str", s |-> s]

\* d.get(key, default)
Get(d, key, default) == IF key \in DOMAIN d THEN d[key] ELSE default

(***************************************************************************)
(* extract_text_from_pdf                                                   *)
(***************************************************************************)
\* lines 189-195: the pages that have text
RECURSIVE PageTextsOf(_)
PageTextsOf(pages) ==
    IF pages = <<>> THEN <<>>
    ELSE IF Head(pages) = <<>> THEN PageTextsOf(Tail(pages))
    ELSE <<Head(pages)>> \o PageTextsOf(Tail(pages))

\* lines 180-201: bytes PyPDF2 cannot read give ""
ExtractTextFromPdf(pdf_file) ==
    IF pdf_file.readable THEN Join(<<NL, NL>>, PageTextsOf(pdf_file.pages)) ELSE <<>>

(***************************************************************************)
(* synthesize_summaries and the merge of summarize_document                *)
(***************************************************************************)
\* lines 403-411 on the text out that _call_gpt returned.  out.kind says how
\* the text parses: "empty" and "prose" hold no brace, "badjson" holds
\* braces around what json.loads rejects, "json" holds the object out.obj
SynthesizeSummaries(out) ==
    IF out.kind = "json" THEN out.obj
    ELSE ("narrative" :> Str(out.text)) @@ ("metrics" :> Dict(EmptyDict))
            @@ ("recommendations" :> List(<<>>)) @@ ("missing_items" :> List(<<>>))
            @@ ("confidence" :> NoneV)

\* line 592: fs.missing_items = synth.get("missing_items", [])
MissingItems(synth) == Get(synth, "missing_items", List(<<>>))

\* line 597: setdefault or update is called on something that is no dict
MergeRaises(m) ==
    \/ m.t # "dict"
    \/ Get(m.d, "financials", Dict(EmptyDict)).t # "dict"

\* line 597: fs.metrics.setdefault("financials", {}).update(metrics or {})
MergeMetrics(m, metrics) ==
    Dict(("financials" :> Dict(metrics @@ Get(m.d, "financials", Dict(EmptyDict)).d)) @@ m.d)

\* line 575: min(3, max(1, int(os.getenv("GPT_MAX_WORKERS", ...))))
MaxWorkers(n) ==
    LET atLeast1 == IF n > 1 THEN n ELSE 1
    IN  IF atLeast1 < 3 THEN atLeast1 ELSE 3

\* FinancialSummary(), lines 95-105
FinancialSummary ==
    [narrative |-> Str(""), metrics |-> Dict(EmptyDict), recommendations |-> List(<<>>),
     missing_items |-> List(<<>>), confidence |-> NoneV, raw_chunk_summaries |-> <<>>]

(***************************************************************************)
(* SpecChunk: _chunk_text applied to every text over {a, newline} of at    *)
(* most MaxTextLen characters and every max_chars in 0..MaxChars.          *)
(***************************************************************************)
RECURSIVE SeqsUpTo(_, _)
SeqsUpTo(S, n) ==
    IF n = 0 THEN {<<>>}
    ELSE LET shorter == SeqsUpTo(S, n - 1)
         IN  shorter \cup {Append(s, c) : s \in shorter, c \in S}

\* no call of _chunk_text on its own is under way
ChunkIdle == ct_text = <<>> /\ ct_max = 0 /\ ct_out = <<>> /\ ct_pc = "idle"

\* no call of extract_structured_metrics on its own is under way
AggIdle == ag_in = <<>> /\ ag_out = EmptyDict /\ ag_pc = "idle"

\* no call of summarize_document is under way
DocumentIdle ==
    /\ pdf = [readable |-> FALSE, pages |-> <<>>]
    /\ chunk_max_chars = 0
    /\ gpt_max_workers = 0
    /\ pc = "idle"
    /\ full_text = <<>>
    /\ sd_chunks = <<>>
    /\ futures = <<>>
    /\ finished = {}
    /\ waiter = <<>>
    /\ sd_summaries = <<>>
    /\ llm_out = [kind |-> "none", text |-> "", obj |-> EmptyDict]
    /\ calls = [chunk_text |-> 0, summarize_chunk |-> 0, call_gpt |-> 0]
    /\ fs = FinancialSummary

\* no call of model discovery on its own is under way
PickIdle == pk_catalogue = <<>> /\ pk_out = NoneV /\ pk_pc = "idle"

\* no thread is in _get_available_model
DiscoveryIdle == cache = NoneV /\ catalogue = <<>> /\ threads = <<>> /\ writes = 0

\* no call of _call_gpt is under way
CallIdle ==
    /\ cg_config = [retries |-> 0, api_key |-> FALSE, service_account |-> FALSE]
    /\ cg_pc = "idle"
    /\ cg_candidate = 0
    /\ cg_attempt = 0
    /\ cg_available = <<>>
    /\ cg_tried = <<>>
    /\ cg_texts = {}
    /\ cg_waits = <<>>
    /\ cg_request = [kind |-> "none"]
    /\ cg_http = 0
    /\ cg_result = NoneV

LLMIdle == PickIdle /\ DiscoveryIdle /\ CallIdle

\* no call of parse_number on its own is under way
ParseIdle == pn_in = [body |-> <<>>, form |-> "plain"] /\ pn_out = NoneV /\ pn_pc = "idle"

\* no agent is being constructed on its own
AgentIdle == ga_in = NoneV /\ ga_model = NoneV /\ ga_pc = "idle"

\* no request is with the submit-data route
SubmitIdle == sb_in = NoneV /\ sb_db = <<>> /\ sb_resp = NoneV

\* no request is with the approve or reject routes
ReviewIdle == rv_in = NoneV /\ rv_db = NoneV /\ rv_resp = NoneV /\ rv_pc = "idle"

RestIdle == ParseIdle /\ AgentIdle /\ SubmitIdle /\ ReviewIdle

ChunkInit ==
    /\ ct_text \in SeqsUpTo({"a", NL}, MaxTextLen)
    /\ ct_max \in 0..MaxChars
    /\ ct_out = <<>>
    /\ ct_pc = "call"
    /\ AggIdle
    /\ DocumentIdle
    /\ LLMIdle
    /\ RestIdle

ChunkTextCall ==
    /\ ct_pc = "call"
    /\ ct_out' = ChunkText(ct_text, ct_max)
    /\ ct_pc' = "done"
    /\ UNCHANGED <<ct_text, ct_max, agvars, sdvars, llmvars, restvars>>

SpecChunk == ChunkInit /\ [][ChunkTextCall]_vars

\* the paragraphs of chunk i, read back from the chunk itself
ParasOfChunk(i) == SplitParagraphs(ct_out[i])

\* how many paragraphs the chunks before chunk i hold
RECURSIVE ParasBefore(_)
ParasBefore(i) == IF i <= 1 THEN 0 ELSE ParasBefore(i - 1) + Len(ParasOfChunk(i - 1))

\* C9: every chunk returned by _chunk_text is at most max_chars long, unless
\* it consists of exactly one paragraph that is itself longer than max_chars.
C9_ChunkSizeBound ==
    ct_pc = "done" =>
        \A i \in DOMAIN ct_out :
            \/ StrLen(ct_out[i]) <= ct_max
            \/ /\ Len(ParasOfChunk(i)) = 1
               /\ StrLen(ParasOfChunk(i)[1]) > ct_max

\* a call that returned a chunk packing two paragraphs and an oversized chunk
C9_Witness ==
    /\ ct_pc = "done"
    /\ \E i \in DOMAIN ct_out : Len(ParasOfChunk(i)) >= 2 /\ StrLen(ct_out[i]) = ct_max - 2
    /\ \E i \in DOMAIN ct_out : StrLen(ct_out[i]) > ct_max

\* C10: every paragraph longer than max_chars, wherever it stands in the
\* document, is returned as a chunk of its own: the chunk at its place holds
\* exactly that paragraph, whole, and no other paragraph.
C10_OversizedParagraphAlone ==
    ct_pc = "done" =>
        \A k \in DOMAIN SplitParagraphs(ct_text) :
            (ct_text # <<>> /\ StrLen(SplitParagraphs(ct_text)[k]) > ct_max) =>
                \E i \in DOMAIN ct_out :
                    /\ ParasBefore(i) = k - 1
                    /\ ct_out[i] = SplitParagraphs(ct_text)[k]
                    /\ Len(ParasOfChunk(i)) = 1

\* an oversized paragraph between two short ones, each of which would fit
C10_Witness ==
    /\ ct_pc = "done"
    /\ Len(SplitParagraphs(ct_text)) = 3
    /\ SplitParagraphs(ct_text)[1] # <<>>
    /\ SplitParagraphs(ct_text)[3] # <<>>
    /\ StrLen(SplitParagraphs(ct_text)[2]) > ct_max
    /\ StrLen(SplitParagraphs(ct_text)[1]) + 2 <= ct_max
    /\ StrLen(SplitParagraphs(ct_text)[3]) + 2 <= ct_max
    /\ Len(ct_out) = 3

\* the paragraphs of the chunks from chunk i on, chunk by chunk
RECURSIVE ParasFrom(_)
ParasFrom(i) == IF i > Len(ct_out) THEN <<>> ELSE ParasOfChunk(i) \o ParasFrom(i + 1)

\* C11: the paragraphs of the chunks returned by _chunk_text, read chunk by
\* chunk, are exactly the paragraphs of the text in their order, nothing lost,
\* duplicated or reordered; the chunk list is empty exactly when the text is.
C11_ChunksPreserveParagraphs ==
    ct_pc = "done" =>
        /\ ct_out = <<>> <=> ct_text = <<>>
        /\ ct_text # <<>> => ParasFrom(1) = SplitParagraphs(ct_text)

\* a call that returned several chunks, the first of them packing two
\* paragraphs of the text
C11_Witness ==
    /\ ct_pc = "done"
    /\ Len(ct_out) >= 2
    /\ Len(ParasOfChunk(1)) = 2
    /\ ParasOfChunk(1)[2] # <<>>
    /\ ct_out[2] # <<>>


(***************************************************************************)
(* The page texts the documents of the model are made of.                  *)
(***************************************************************************)
Capital500 == <<"a", NL, "total", " ", "capital", ":", " ", "5", "0", "0">>

Capital900Liabilities400 ==
    <<"a", NL, "total", " ", "capital", ":", " ", "9", "0", "0", NL,
      "total", " ", "liabilities", ":", " ", "4", "0", "0">>

CapitalZero == <<"a", NL, "total", " ", "capital", ":", " ", "0">>

CapitalMillion ==
    <<"total", " ", "capital", ":", " ", "1", ",", "0", "0", "0", ",", "0", "0", "0", NL,
      "total", " ", "liabilities", ":", " ", "8", "0", "0", ",", "0", "0", "0">>

LiabilitiesZero == <<"total", " ", "liabilities", ":", " ", "0">>

GwpAndOpinion ==
    <<"gwp", ":", " ", "7", NL, "note", ":", " ", "unqualified", " ", "opinion">>

\* the texts of the pages that have text
ChunkTexts ==
    {Capital500, Capital900Liabilities400, CapitalZero, CapitalMillion,
     LiabilitiesZero, GwpAndOpinion}

\* a page without text gives ""
PageTexts == ChunkTexts \cup {<<>>}

(***************************************************************************)
(* SpecAgg: extract_structured_metrics applied to every list of at most    *)
(* MaxSummaries chunk summaries that summarize_chunk makes of ChunkTexts.  *)
(***************************************************************************)
AggInit ==
    /\ ag_in \in {[i \in DOMAIN texts |-> SummarizeChunk(texts[i])] :
                    texts \in SeqsUpTo(ChunkTexts, MaxSummaries)}
    /\ ag_out = EmptyDict
    /\ ag_pc = "call"
    /\ ChunkIdle
    /\ DocumentIdle
    /\ LLMIdle
    /\ RestIdle

ExtractStructuredMetricsCall ==
    /\ ag_pc = "call"
    /\ ag_out' = ExtractStructuredMetrics(ag_in)
    /\ ag_pc' = "done"
    /\ UNCHANGED <<ag_in, ctvars, sdvars, llmvars, restvars>>

SpecAgg == AggInit /\ [][ExtractStructuredMetricsCall]_vars

\* C20: auditors_unqualified_opinion in the extracted metrics is true or
\* null, never false; it is true exactly when a summary holds the words
\* "unqualified" ... "opinion" or "auditors" ... "opinion" ... "unqualified".
C20_OpinionTrueOrNull ==
    ag_pc = "done" =>
        /\ ag_out["auditors_unqualified_opinion"] \in {Bool(TRUE), NoneV}
        /\ ag_out["auditors_unqualified_opinion"] = Bool(TRUE) <=>
                \E i \in DOMAIN ag_in :
                    \E ws \in {<<"unqualified", "opinion">>, <<"auditors", "opinion", "unqualified">>} :
                        WordsInOrder(JsonDumps(ag_in[i]), Len(JsonDumps(ag_in[i])), ws)

C20_Witness ==
    /\ ag_pc = "done"
    /\ Len(ag_in) = 2
    /\ ag_out["auditors_unqualified_opinion"] = Bool(TRUE)
    /\ ag_out["capital"] # NoneV

(***************************************************************************)
(* Spec: one call of summarize_document, its chunk workers interleaved.    *)
(***************************************************************************)
\* what the LLM call of synthesize_summaries may return
LLMReplies ==
    {[kind |-> "empty", text |-> "", obj |-> EmptyDict],
     [kind |-> "prose", text |-> "I cannot help with that.", obj |-> EmptyDict],
     [kind |-> "badjson", text |-> "{narrative: }", obj |-> EmptyDict],
     [kind |-> "json", text |-> "{}", obj |-> EmptyDict],
     [kind |-> "json", text |-> "{\"metrics\": null}", obj |-> ("metrics" :> NoneV)],
     [kind |-> "json", text |-> "{\"metrics\": []}", obj |-> ("metrics" :> List(<<>>))],
     [kind |-> "json", text |-> "{\"metrics\": {\"financials\": null}}",
      obj |-> ("metrics" :> Dict(("financials" :> NoneV)))],
     [kind |-> "json",
      text |-> "{\"metrics\": {\"financials\": {\"capital\": 1}, \"gwp\": 2}, \"missing_items\": [\"capital\"]}",
      obj |-> ("metrics" :> Dict(("financials" :> Dict(("capital" :> Num(100))))
                                    @@ ("gwp" :> Num(200))))
                @@ ("missing_items" :> List(<<"capital">>))]}

\* the values of GPT_CHUNK_MAX_CHARS the model runs with: the default and a
\* limit that the pages of the model exceed
ChunkMaxCharsChoices == {30, 3000}

\* the values of GPT_MAX_WORKERS the model runs with
MaxWorkersChoices == {0, 2, 5}

Init ==
    /\ pdf \in [readable : BOOLEAN, pages : SeqsUpTo(PageTexts, MaxPages)]
    /\ chunk_max_chars \in ChunkMaxCharsChoices
    /\ gpt_max_workers \in MaxWorkersChoices
    /\ pc = "start"
    /\ full_text = <<>>
    /\ sd_chunks = <<>>
    /\ futures = <<>>
    /\ finished = {}
    /\ waiter = <<>>
    /\ sd_summaries = <<>>
    /\ llm_out = [kind |-> "none", text |-> "", obj |-> EmptyDict]
    /\ calls = [chunk_text |-> 0, summarize_chunk |-> 0, call_gpt |-> 0]
    /\ fs = FinancialSummary
    /\ ChunkIdle
    /\ AggIdle
    /\ LLMIdle
    /\ RestIdle

\* lines 566-571: no text, the summary is returned at once
EmptyText ==
    /\ pc = "start"
    /\ ExtractTextFromPdf(pdf) = <<>>
    /\ full_text' = <<>>
    /\ fs' = [fs EXCEPT !.narrative = Str("No text could be extracted from the provided PDF."),
                        !.missing_items = List(<<"document_text">>)]
    /\ pc' = "done"
    /\ UNCHANGED <<pdf, chunk_max_chars, gpt_max_workers, sd_chunks, futures, finished,
                   waiter, sd_summaries, llm_out, calls, ctvars, agvars, llmvars, restvars>>

\* lines 566-577: the text is chunked and a future is submitted per chunk
SubmitChunks ==
    /\ pc = "start"
    /\ ExtractTextFromPdf(pdf) # <<>>
    /\ full_text' = ExtractTextFromPdf(pdf)
    /\ sd_chunks' = ChunkText(full_text', chunk_max_chars)
    /\ futures' = [i \in DOMAIN sd_chunks' |-> "queued"]
    /\ calls' = [calls EXCEPT !.chunk_text = @ + 1]
    /\ pc' = "submitted"
    /\ UNCHANGED <<pdf, chunk_max_chars, gpt_max_workers, finished, waiter, sd_summaries,
                   llm_out, fs, ctvars, agvars, llmvars, restvars>>

\* a worker thread of the pool takes the oldest queued work item
WorkerStart(i) ==
    /\ pc \in {"submitted", "iterating"}
    /\ futures[i] = "queued"
    /\ \A j \in DOMAIN futures : j < i => futures[j] # "queued"
    /\ Cardinality({j \in DOMAIN futures : futures[j] = "running"}) < MaxWorkers(gpt_max_workers)
    /\ futures' = [futures EXCEPT ![i] = "running"]
    /\ calls' = [calls EXCEPT !.summarize_chunk = @ + 1]
    /\ UNCHANGED <<pdf, chunk_max_chars, gpt_max_workers, pc, full_text, sd_chunks, finished,
                   waiter, sd_summaries, llm_out, fs, ctvars, agvars, llmvars, restvars>>

\* summarize_chunk returns in a worker; an installed waiter is told
WorkerFinish(i) ==
    /\ pc \in {"submitted", "iterating"}
    /\ futures[i] = "running"
    /\ futures' = [futures EXCEPT ![i] = "finished"]
    /\ waiter' = IF pc = "iterating" THEN Append(waiter, i) ELSE waiter
    /\ UNCHANGED <<pdf, chunk_max_chars, gpt_max_workers, pc, full_text, sd_chunks, finished,
                   sd_summaries, llm_out, calls, fs, ctvars, agvars, llmvars, restvars>>

\* line 578: as_completed sets the futures that are finished apart and
\* installs its waiter on the others
AsCompleted ==
    /\ pc = "submitted"
    /\ finished' = {i \in DOMAIN futures : futures[i] = "finished"}
    /\ pc' = "iterating"
    /\ UNCHANGED <<pdf, chunk_max_chars, gpt_max_workers, full_text, sd_chunks, futures,
                   waiter, sd_summaries, llm_out, calls, fs, ctvars, agvars, llmvars, restvars>>

\* lines 578-585: as_completed yields a future it found finished; they come
\* in the iteration order of a set of futures
YieldFinished(i) ==
    /\ pc = "iterating"
    /\ i \in finished
    /\ finished' = finished \ {i}
    /\ sd_summaries' = Append(sd_summaries, SummarizeChunk(sd_chunks[i]))
    /\ UNCHANGED <<pdf, chunk_max_chars, gpt_max_workers, pc, full_text, sd_chunks, futures,
                   waiter, llm_out, calls, fs, ctvars, agvars, llmvars, restvars>>

\* lines 578-585: then as_completed yields the futures in the order in which
\* they told the waiter
YieldWaiter ==
    /\ pc = "iterating"
    /\ finished = {}
    /\ waiter # <<>>
    /\ waiter' = Tail(waiter)
    /\ sd_summaries' = Append(sd_summaries, SummarizeChunk(sd_chunks[Head(waiter)]))
    /\ UNCHANGED <<pdf, chunk_max_chars, gpt_max_workers, pc, full_text, sd_chunks, futures,
                   finished, llm_out, calls, fs, ctvars, agvars, llmvars, restvars>>

\* lines 586-599, every future yielded: the synthesis, with the one LLM
\* call of the pipeline, then the metrics and their merge
Synthesize(out) ==
    /\ pc = "iterating"
    /\ finished = {}
    /\ waiter = <<>>
    /\ \A i \in DOMAIN futures : futures[i] = "finished"
    /\ llm_out' = out
    /\ calls' = [calls EXCEPT !.call_gpt = @ + 1]
    /\ LET synth == SynthesizeSummaries(out)
           m == Get(synth, "metrics", Dict(EmptyDict))
           metrics == ExtractStructuredMetrics(sd_summaries)
       IN  IF MergeRaises(m)
           THEN pc' = "raised" /\ fs' = fs
           ELSE /\ pc' = "done"
                /\ fs' = [narrative |-> Get(synth, "narrative", Str("")),
                          metrics |-> MergeMetrics(m, metrics),
                          recommendations |-> Get(synth, "recommendations", List(<<>>)),
                          missing_items |-> MissingItems(synth),
                          confidence |-> Get(synth, "confidence", NoneV),
                          raw_chunk_summaries |-> sd_summaries]
    /\ UNCHANGED <<pdf, chunk_max_chars, gpt_max_workers, full_text, sd_chunks, futures,
                   finished, waiter, sd_summaries, ctvars, agvars, llmvars, restvars>>

Next ==
    \/ EmptyText
    \/ SubmitChunks
    \/ \E i \in DOMAIN futures : WorkerStart(i)
    \/ \E i \in DOMAIN futures : WorkerFinish(i)
    \/ AsCompleted
    \/ \E i \in finished : YieldFinished(i)
    \/ YieldWaiter
    \/ \E out \in LLMReplies : Synthesize(out)

Spec == Init /\ [][Next]_vars


(***************************************************************************)
(* Properties of extract_structured_metrics, checked under SpecAgg.        *)
(***************************************************************************)
\* the value a chunk summary holds for a schema key: the number of the
\* key_numbers entry that feeds the key, None when there is no such entry
ChunkMetric(summary, key) ==
    LET feeding == {k \in DOMAIN summary.key_numbers : CanonOfKey(k) = key}
    IN  IF feeding = {} THEN NoneV
        ELSE Num(summary.key_numbers[CHOOSE k \in feeding : TRUE])

\* the places of a list of chunk summaries that hold a value for a key
PlacesWith(summaries, key) == {i \in DOMAIN summaries : ChunkMetric(summaries[i], key) # NoneV}

\* C2: first-wins aggregation: for every schema key and every list of chunk
\* results, the aggregated value is the first non-null value for that key in
\* list order; a later chunk never replaces it.
C2_FirstWins ==
    ag_pc = "done" =>
        \A key \in Canonical :
            LET places == PlacesWith(ag_in, key)
            IN  places # {} =>
                    ag_out[key] = ChunkMetric(ag_in[CHOOSE i \in places : \A j \in places : i <= j], key)

\* C26: the regex fallback of extract_structured_metrics runs only for the
\* keys that the key_numbers pass left unresolved: a key resolved from
\* key_numbers keeps that value in the result, whatever the patterns of the
\* fallback match in the summaries.
C26_ResolvedKeysKept ==
    ag_pc = "done" =>
        LET resolved == KeyNumbersPass(<<>>, ag_in)
        IN  \A key \in DOMAIN resolved : ag_out[key] = resolved[key]

C26_Witness ==
    /\ ag_pc = "done"
    /\ LET resolved == KeyNumbersPass(<<>>, ag_in)
       IN  \E key \in DOMAIN resolved :
               /\ FallbackValue(SummaryLines(ag_in), key) \notin {NoneV, resolved[key]}
               /\ ag_out[key] = resolved[key]

RECURSIVE GCD(_, _)
GCD(a, b) == IF b = 0 THEN a ELSE GCD(b, a % b)

Abs(n) == IF n < 0 THEN 0 - n ELSE n

\* r hundredths is a hundredth nearest to (num / den) * 100
NearestPercent(r, num, den) ==
    LET g == GCD(Abs(num), Abs(den))
        n == num \div g
        d == den \div g
    IN  2 * Abs(r * d - 10000 * n) <= Abs(d)

\* C4: after aggregation solvency_ratio is non-null exactly when capital and
\* liabilities are both resolved and liabilities is not 0, and then it is
\* (capital - liabilities) / liabilities * 100 rounded to two decimals:
\* capital 1,000,000 and liabilities 800,000 give 25.0.
C4_SolvencyDerivation ==
    ag_pc = "done" =>
        LET capital == ag_out["capital"]
            liabilities == ag_out["liabilities"]
            ratio == ag_out["solvency_ratio"]
        IN  /\ ratio # NoneV <=>
                    (capital # NoneV /\ liabilities # NoneV /\ liabilities.v # 0)
            /\ ratio # NoneV =>
                    /\ ratio.t = "num"
                    /\ NearestPercent(ratio.v, capital.v - liabilities.v, liabilities.v)
            /\ (capital = Num(1000000 * Unit) /\ liabilities = Num(800000 * Unit)) =>
                    ratio = Num(25 * Unit)

\* the aggregation of capital 1,000,000 and liabilities 800,000 gave 25.0,
\* from a list in which a later chunk holds liabilities 0
C4_Witness ==
    /\ ag_pc = "done"
    /\ Len(ag_in) >= 2
    /\ ag_out["capital"] = Num(1000000 * Unit)
    /\ ag_out["liabilities"] = Num(800000 * Unit)
    /\ ag_out["solvency_ratio"] = Num(25 * Unit)
    /\ \E i \in DOMAIN ag_in : ChunkMetric(ag_in[i], "liabilities") = Num(0)

(***************************************************************************)
(* Properties of summarize_document, checked under Spec.                   *)
(***************************************************************************)
\* summarize_document has returned or raised
Returned == pc = "done"
Raised == pc = "raised"

\* the dict under metrics["financials"] of a returned summary, empty when
\* there is none
FinancialsOf(summary) == Get(summary.metrics.d, "financials", Dict(EmptyDict)).d

\* C1: the metrics mapping of every returned summary holds each of the 13
\* canonical keys, mapped to a value or to null; none is absent.
C1_MetricsComplete ==
    Returned => fs.metrics.t = "dict" /\ Canonical \subseteq DOMAIN fs.metrics.d

\* the chunk summaries in the order of the chunks of the document
InDocumentOrder == [i \in DOMAIN sd_chunks |-> SummarizeChunk(sd_chunks[i])]

\* C3: whatever the interleaving of the chunk workers, the list of chunk
\* results handed to the aggregation is in document order.
C3_DocumentOrder ==
    (Returned \/ Raised) => sd_summaries = InDocumentOrder

\* the elements of a list
Items(list) == {list.items[i] : i \in DOMAIN list.items}

\* the canonical keys that a metrics dict maps to null or does not hold
NullKeys(metrics) == {k \in Canonical : Get(metrics, k, NoneV) = NoneV}

\* C5: for a document with text, missing_items of the returned summary is
\* exactly the set of canonical keys whose metric is null.
C5_MissingItemsAreNullKeys ==
    (Returned /\ full_text # <<>>) =>
        /\ fs.missing_items.t = "list"
        /\ Items(fs.missing_items) = NullKeys(FinancialsOf(fs))

\* C6: summarize_document never raises, whatever the LLM returned.
C6_NeverRaises == ~Raised

\* C7: when no text is extracted, the summary has missing_items equal to
\* ["document_text"] and every canonical metric null, and neither chunking
\* nor chunk extraction nor an LLM call has happened.
C7_EmptyTextShortCircuit ==
    (Returned /\ full_text = <<>>) =>
        /\ fs.missing_items = List(<<"document_text">>)
        /\ \A key \in Canonical : key \in DOMAIN fs.metrics.d /\ fs.metrics.d[key] = NoneV
        /\ calls = [chunk_text |-> 0, summarize_chunk |-> 0, call_gpt |-> 0]

\* the values the patterns of summarize_chunk give a schema key in the
\* chunks of the document
ChunkValues(key) ==
    {ChunkMetric(InDocumentOrder[i], key) : i \in DOMAIN sd_chunks} \ {NoneV}

\* a fallback pattern of the aggregation finds the key in the summaries
FallbackFinds(key) ==
    /\ \E i \in DOMAIN FallbackKeys : FallbackKeys[i] = key
    /\ FallbackValue(SummaryLines(sd_summaries), key) # NoneV

\* C8: with an LLM that returns "" the pipeline completes without raising,
\* every key whose label a pattern matches in a chunk is resolved to its
\* parsed value, and every other canonical key is null.  (The derived
\* solvency_ratio has no label and is left out.)
C8_LLMFailureDegrades ==
    ((Returned \/ Raised) /\ llm_out.kind = "empty") =>
        /\ Returned
        /\ \A key \in Canonical \ {"solvency_ratio"} :
            /\ ChunkValues(key) # {} => FinancialsOf(fs)[key] \in ChunkValues(key)
            /\ (ChunkValues(key) = {} /\ ~FallbackFinds(key)) => FinancialsOf(fs)[key] = NoneV


(***************************************************************************)
(* _list_gemini_models and the pick of _get_available_model.  A model id   *)
(* is a sequence of symbols, as text is; an entry of the provider's list   *)
(* has a name, <<>> when it has none or <<prefix, id>>, and the set of its *)
(* supportedGenerationMethods.                                             *)
(***************************************************************************)
Gemini25Pro == <<"gemini", "-", "2.5", "-", "pro">>
Gemini25Flash == <<"gemini", "-", "2.5", "-", "flash">>
Gemini20Flash == <<"gemini", "-", "2.0", "-", "flash">>
Gemini15Pro == <<"gemini", "-", "1.5", "-", "pro">>
Gemini25ProPreview == <<"gemini", "-", "2.5", "-", "pro", "-", "preview">>
GeminiExp == <<"gemini", "-", "exp">>

\* line 64: the models tried first, in this order
PriorityModels == <<Gemini25Pro, Gemini25Flash, Gemini20Flash>>

\* line 60: the marks of a model that is not stable
PreviewMarks == {"preview", "exp", "experimental"}

\* line 60: not any(x in m.lower() for x in ['preview', 'exp', 'experimental'])
IsStable(m) == \A i \in DOMAIN m : m[i] \notin PreviewMarks

\* lines 146-152: the model id of an entry
ModelId(entry) == entry.name[2]

\* every named entry is listed, whatever it supports
SupportsAnything(entry, filter_for_generation) == TRUE

\* lines 155-158: the entry passes the filter for generation models
Supports(entry, filter_for_generation) ==
    filter_for_generation => "generateContent" \in entry.methods

\* lines 144-160 on the entries of a model list that was served
RECURSIVE ListGeminiModels(_, _)
ListGeminiModels(entries, filter_for_generation) ==
    IF entries = <<>> THEN <<>>
    ELSE LET e == Head(entries)
             rest == ListGeminiModels(Tail(entries), filter_for_generation)
         IN  IF e.name # <<>> /\ Supports(e, filter_for_generation)
             THEN <<ModelId(e)>> \o rest
             ELSE rest

\* lines 57-73: the model picked from the listed models, None for no models
PickModel(models) ==
    IF models = <<>> THEN NoneV
    ELSE LET stable_models == SelectSeq(models, IsStable)
             preferred_models == IF stable_models # <<>> THEN stable_models ELSE models
             found == {i \in DOMAIN PriorityModels :
                          \E j \in DOMAIN preferred_models :
                              preferred_models[j] = PriorityModels[i]}
         IN  IF found # {}
             THEN Str(PriorityModels[CHOOSE i \in found : \A j \in found : i <= j])
             ELSE Str(preferred_models[1])

(***************************************************************************)
(* SpecPick: model discovery with an empty cache on every model list of at *)
(* most MaxCatalogue entries.                                              *)
(***************************************************************************)
CatalogueEntries ==
    {[name |-> <<"models/", Gemini25Flash>>, methods |-> {"generateContent", "countTokens"}],
     [name |-> <<"", Gemini20Flash>>, methods |-> {"generateContent"}],
     [name |-> <<"models/", Gemini15Pro>>, methods |-> {"generateContent"}],
     [name |-> <<"models/", Gemini25ProPreview>>, methods |-> {"generateContent"}],
     [name |-> <<"models/", GeminiExp>>, methods |-> {"generateContent"}],
     [name |-> <<"models/", Gemini25Pro>>, methods |-> {"embedContent"}],
     [name |-> <<>>, methods |-> {"generateContent"}]}

PickInit ==
    /\ pk_catalogue \in SeqsUpTo(CatalogueEntries, MaxCatalogue)
    /\ pk_out = NoneV
    /\ pk_pc = "call"
    /\ ChunkIdle
    /\ AggIdle
    /\ DocumentIdle
    /\ DiscoveryIdle
    /\ CallIdle
    /\ RestIdle

\* _get_available_model with an empty cache, the list request served
GetAvailableModelCall ==
    /\ pk_pc = "call"
    /\ pk_out' = PickModel(ListGeminiModels(pk_catalogue, TRUE))
    /\ pk_pc' = "done"
    /\ UNCHANGED <<pk_catalogue, ctvars, agvars, sdvars, dvars, cgvars, restvars>>

SpecPick == PickInit /\ [][GetAvailableModelCall]_vars

\* the entries of the model list that advertise generateContent
GenerationEntries ==
    {i \in DOMAIN pk_catalogue :
        pk_catalogue[i].name # <<>> /\ "generateContent" \in pk_catalogue[i].methods}

\* the entries the pick is made among: the stable generation models, or
\* every generation model when none is stable
EligibleEntries ==
    LET stable == {i \in GenerationEntries : IsStable(ModelId(pk_catalogue[i]))}
    IN  IF stable # {} THEN stable ELSE GenerationEntries

IsPriority(m) == \E i \in DOMAIN PriorityModels : PriorityModels[i] = m

\* C19: model discovery only picks a model that advertises generateContent;
\* it picks a preview or experimental model only when the list holds no
\* stable generation model; and it picks a model of the priority list
\* whenever an eligible model is on that list.
C19_PickIsEligible ==
    (pk_pc = "done" /\ pk_out # NoneV) =>
        /\ \E i \in GenerationEntries : ModelId(pk_catalogue[i]) = pk_out.s
        /\ ~IsStable(pk_out.s) =>
                \A i \in GenerationEntries : ~IsStable(ModelId(pk_catalogue[i]))
        /\ ~IsPriority(pk_out.s) =>
                \A i \in EligibleEntries : ~IsPriority(ModelId(pk_catalogue[i]))

\* a list with a preview model first, then a stable model that is not on the
\* priority list, then a priority model that does not generate: the stable
\* model is picked
C19_Witness ==
    /\ pk_pc = "done"
    /\ Len(pk_catalogue) = 3
    /\ pk_catalogue[1].name = <<"models/", Gemini25ProPreview>>
    /\ pk_catalogue[3].name = <<"models/", Gemini25Pro>>
    /\ pk_out = Str(Gemini15Pro)


(***************************************************************************)
(* SpecDiscover: the threads of a process call _get_available_model, as    *)
(* GPTComplianceAgent.__init__ does, while the provider's list changes.    *)
(***************************************************************************)
Threads == {"t1", "t2"}

\* the model lists the provider serves over time
Catalogues ==
    {<< [name |-> <<"models/", Gemini25Flash>>, methods |-> {"generateContent"}] >>,
     << [name |-> <<"models/", Gemini15Pro>>, methods |-> {"generateContent"}],
        [name |-> <<"models/", Gemini25Pro>>, methods |-> {"embedContent"}] >>}

\* line 52: if _AVAILABLE_MODEL_CACHE
CacheSet(c) == c # NoneV /\ c.s # <<>>

DiscoverInit ==
    /\ cache = NoneV
    /\ catalogue \in Catalogues
    /\ threads = [t \in Threads |-> [pc |-> "idle", pick |-> NoneV, ret |-> NoneV, calls |-> 0]]
    /\ writes = 0
    /\ ChunkIdle
    /\ AggIdle
    /\ DocumentIdle
    /\ PickIdle
    /\ CallIdle
    /\ RestIdle

\* lines 51-53: a thread enters and returns the cached model
ReturnCached(t) ==
    /\ threads[t].pc = "idle"
    /\ threads[t].calls < MaxCalls
    /\ CacheSet(cache)
    /\ threads' = [threads EXCEPT ![t].calls = @ + 1, ![t].ret = cache]
    /\ UNCHANGED <<cache, catalogue, writes, ctvars, agvars, sdvars, pkvars, cgvars, restvars>>

\* lines 51-56: a thread enters, finds no cached model and sends the list
\* request
BeginDiscovery(t) ==
    /\ threads[t].pc = "idle"
    /\ threads[t].calls < MaxCalls
    /\ ~CacheSet(cache)
    /\ threads' = [threads EXCEPT ![t].calls = @ + 1, ![t].pc = "listing"]
    /\ UNCHANGED <<cache, catalogue, writes, ctvars, agvars, sdvars, pkvars, cgvars, restvars>>

\* lines 56, 74-76: the list request fails, or lists no generation model
ListFails(t) ==
    /\ threads[t].pc = "listing"
    /\ threads' = [threads EXCEPT ![t].pc = "idle", ![t].ret = NoneV]
    /\ UNCHANGED <<cache, catalogue, writes, ctvars, agvars, sdvars, pkvars, cgvars, restvars>>

\* lines 56-64: the list request is served and the model picked
ListServed(t) ==
    /\ threads[t].pc = "listing"
    /\ PickModel(ListGeminiModels(catalogue, TRUE)) # NoneV
    /\ threads' = [threads EXCEPT ![t].pc = "store",
                                  ![t].pick = PickModel(ListGeminiModels(catalogue, TRUE))]
    /\ UNCHANGED <<cache, catalogue, writes, ctvars, agvars, sdvars, pkvars, cgvars, restvars>>

\* lines 66-68 or 71-73: the pick is stored and returned
StorePick(t) ==
    /\ threads[t].pc = "store"
    /\ cache' = threads[t].pick
    /\ writes' = writes + 1
    /\ threads' = [threads EXCEPT ![t].pc = "idle", ![t].ret = threads[t].pick]
    /\ UNCHANGED <<catalogue, ctvars, agvars, sdvars, pkvars, cgvars, restvars>>

\* the provider serves another model list
CatalogueChanges ==
    /\ catalogue' \in Catalogues \ {catalogue}
    /\ UNCHANGED <<cache, threads, writes, ctvars, agvars, sdvars, pkvars, cgvars, restvars>>

DiscoverNext ==
    \/ \E t \in Threads : ReturnCached(t)
    \/ \E t \in Threads : BeginDiscovery(t)
    \/ \E t \in Threads : ListFails(t)
    \/ \E t \in Threads : ListServed(t)
    \/ \E t \in Threads : StorePick(t)
    \/ CatalogueChanges

SpecDiscover == DiscoverInit /\ [][DiscoverNext]_vars

\* thread t enters _get_available_model in this step
Enters(t) == threads'[t].calls = threads[t].calls + 1

\* C17: the cache has no expiry: once a model is stored, it stays the cached
\* model, and every later call returns it without a list request, whatever
\* the provider's list has become.
C17_CacheNeverExpires ==
    [][CacheSet(cache) =>
            /\ cache' = cache
            /\ \A t \in Threads :
                    Enters(t) => threads'[t].pc = "idle" /\ threads'[t].ret = cache]_vars

\* C18: under any interleaving of concurrent first-use calls the cache is
\* written at most once and all callers end up with the same model.
C18_CacheWrittenOnce ==
    /\ writes <= 1
    /\ \A t, u \in Threads :
            (threads[t].ret # NoneV /\ threads[u].ret # NoneV) => threads[t].ret = threads[u].ret


(***************************************************************************)
(* _call_gpt (lines 225-333).  Seconds are in hundredths.                  *)
(***************************************************************************)
BaseDelay == 100    \* line 317: 1.0 * attempt
BackoffCap == 500   \* line 317: 5.0

Min(a, b) == IF a <= b THEN a ELSE b

\* the wait without its cap
BackoffLinear(attempt) == BaseDelay * attempt

\* line 317: min(1.0 * attempt, 5.0)
Backoff(attempt) == Min(BaseDelay * attempt, BackoffCap)

\* the two candidate forms, the prefixed one first
CandidateFormsPrefixedFirst(model_to_use) == << <<"models/", model_to_use>>, <<"", model_to_use>> >>

\* line 310: [model_to_use, f"models/{model_to_use}"]
CandidateForms(model_to_use) == << <<"", model_to_use>>, <<"models/", model_to_use>> >>

\* line 33: the default of GEMINI_MODEL
ModelToUse == Gemini25Flash

\* lines 109-123: a token can be obtained only with a service account, and
\* the refresh may fail at any attempt
BearerChoices(config) == IF config.service_account THEN BOOLEAN ELSE {FALSE}

\* the API key whenever there is one
CredentialsKeyFirst(bearer, api_key) ==
    IF api_key THEN "key" ELSE IF bearer THEN "bearer" ELSE "none"

\* lines 258-266 and 130-139: if bearer ... elif GEMINI_API_KEY ... else
Credentials(bearer, api_key) ==
    IF bearer THEN "bearer" ELSE IF api_key THEN "key" ELSE "none"

\* a request as it is sent
Request(kind, bearer, api_key, reply) ==
    [kind |-> kind, bearer |-> bearer,
     authorization |-> Credentials(bearer, api_key) = "bearer",
     url_key |-> Credentials(bearer, api_key) = "key",
     reply |-> reply.kind]

\* the texts a reply of the generation endpoint may hold
ReplyTexts == {<<"ok">>, <<" ", "ok", NL>>, <<" ", NL>>}

\* what may come of a generation request
Replies ==
    {[kind |-> k, text |-> <<>>] :
        k \in {"network_error", "timeout", "non200", "bad_json", "not_object",
               "no_candidates", "max_tokens"}}
    \cup {[kind |-> "text", text |-> t] : t \in ReplyTexts}

\* lines 242-306: what _invoke_once returns
InvokeOnce(credentials, reply) ==
    IF credentials = "none" THEN NoneV                                   \* 264-266
    ELSE IF reply.kind \in {"network_error", "timeout"} THEN NoneV       \* 268-272
    ELSE IF reply.kind = "non200" THEN NoneV                             \* 274-283
    ELSE IF reply.kind \in {"bad_json", "not_object"} THEN NoneV         \* 303-305
    ELSE IF reply.kind = "text" /\ reply.text # <<>>
         THEN Str(Strip(reply.text))                                     \* 292-294
    ELSE NoneV                                                           \* 296-302

\* lines 314 and 326: if res
Succeeded(res) == res # NoneV /\ res.s # <<>>

\* the model lists the provider may serve to _call_gpt
ListedCatalogues ==
    Catalogues \cup
    {<<>>,
     << [name |-> <<"models/", Gemini25Flash>>, methods |-> {"generateContent"}],
        [name |-> <<"models/", Gemini15Pro>>, methods |-> {"generateContent"}] >>}

\* what may come of a list request
ListReplies ==
    {[kind |-> k, entries |-> <<>>] : k \in {"network_error", "non200", "bad_json"}}
    \cup {[kind |-> "served", entries |-> c] : c \in ListedCatalogues}

\* lines 130-142: what _list_gemini_models raises, "none" when it returns
ListRaises(credentials, reply) ==
    IF credentials = "none" THEN "RuntimeError"                \* 138-139
    ELSE IF reply.kind = "network_error" THEN "RequestException"   \* 140
    ELSE IF reply.kind = "non200" THEN "RuntimeError"          \* 141-142
    ELSE IF reply.kind = "bad_json" THEN "ValueError"          \* 143
    ELSE "none"

\* only the errors that _list_gemini_models raises itself are caught
ListCaughtRuntimeError(exception) == exception = "RuntimeError"

\* line 329: except Exception
ListCaught(exception) == TRUE


(***************************************************************************)
(* SpecCall: one call of _call_gpt for every configuration of retries and  *)
(* credentials, every reply to every request.                              *)
(***************************************************************************)
others == <<ctvars, agvars, sdvars, pkvars, dvars, restvars>>

CallInit ==
    /\ cg_config \in [retries : 0..MaxRetries, api_key : BOOLEAN, service_account : BOOLEAN]
    /\ cg_pc = "candidate"
    /\ cg_candidate = 1
    /\ cg_attempt = 0
    /\ cg_available = <<>>
    /\ cg_tried = <<>>
    /\ cg_texts = {}
    /\ cg_waits = <<>>
    /\ cg_request = [kind |-> "none"]
    /\ cg_http = 0
    /\ cg_result = NoneV
    /\ ChunkIdle
    /\ AggIdle
    /\ DocumentIdle
    /\ PickIdle
    /\ DiscoveryIdle
    /\ RestIdle

\* lines 310-312: the next candidate form, its first attempt ahead
NextCandidate ==
    /\ cg_pc = "candidate"
    /\ cg_candidate <= Len(CandidateForms(ModelToUse))
    /\ cg_pc' = "attempt"
    /\ cg_attempt' = 1
    /\ UNCHANGED <<cg_config, cg_candidate, cg_available, cg_tried, cg_texts, cg_waits,
                   cg_request, cg_http, cg_result, others>>

\* line 310: no candidate form is left
CandidatesExhausted ==
    /\ cg_pc = "candidate"
    /\ cg_candidate > Len(CandidateForms(ModelToUse))
    /\ cg_pc' = "listing"
    /\ UNCHANGED <<cg_config, cg_candidate, cg_attempt, cg_available, cg_tried, cg_texts,
                   cg_waits, cg_request, cg_http, cg_result, others>>

\* line 312: the attempts of the candidate are used up
AttemptsExhausted ==
    /\ cg_pc = "attempt"
    /\ cg_attempt > cg_config.retries
    /\ cg_pc' = "candidate"
    /\ cg_candidate' = cg_candidate + 1
    /\ UNCHANGED <<cg_config, cg_attempt, cg_available, cg_tried, cg_texts, cg_waits,
                   cg_request, cg_http, cg_result, others>>

\* what one call of _invoke_once leaves behind, whoever makes it
Invoked(candidate, bearer, reply) ==
    LET credentials == Credentials(bearer, cg_config.api_key)
    IN  /\ cg_tried' = Append(cg_tried, candidate)
        /\ IF credentials = "none"
           THEN UNCHANGED <<cg_request, cg_http, cg_texts>>
           ELSE /\ cg_request' = Request("generate", bearer, cg_config.api_key, reply)
                /\ cg_http' = cg_http + 1
                /\ cg_texts' = IF reply.kind = "text" THEN cg_texts \cup {reply.text}
                               ELSE cg_texts

\* lines 313-317: one attempt of a candidate form
Attempt ==
    /\ cg_pc = "attempt"
    /\ cg_attempt <= cg_config.retries
    /\ \E bearer \in BearerChoices(cg_config), reply \in Replies :
        LET res == InvokeOnce(Credentials(bearer, cg_config.api_key), reply)
        IN  /\ Invoked(CandidateForms(ModelToUse)[cg_candidate], bearer, reply)
            /\ IF Succeeded(res)
               THEN /\ cg_result' = res
                    /\ cg_pc' = "returned"
                    /\ UNCHANGED <<cg_attempt, cg_waits>>
               ELSE /\ cg_waits' = Append(cg_waits, Backoff(cg_attempt))
                    /\ cg_attempt' = cg_attempt + 1
                    /\ UNCHANGED <<cg_result, cg_pc>>
    /\ UNCHANGED <<cg_config, cg_candidate, cg_available, others>>

\* lines 320-322, 329-333: the generation models are listed
ListModels ==
    /\ cg_pc = "listing"
    /\ \E bearer \in BearerChoices(cg_config), reply \in ListReplies :
        LET credentials == Credentials(bearer, cg_config.api_key)
            exception == ListRaises(credentials, reply)
        IN  /\ IF credentials = "none"
               THEN UNCHANGED <<cg_request, cg_http>>
               ELSE /\ cg_request' = Request("list", bearer, cg_config.api_key, reply)
                    /\ cg_http' = cg_http + 1
            /\ IF exception = "none"
               THEN /\ cg_available' = ListGeminiModels(reply.entries, TRUE)
                    /\ cg_candidate' = 1
                    /\ cg_pc' = "exact"
                    /\ UNCHANGED cg_result
               ELSE IF ListCaught(exception)
               THEN /\ cg_result' = Str(<<>>)
                    /\ cg_pc' = "returned"
                    /\ UNCHANGED <<cg_available, cg_candidate>>
               ELSE /\ cg_pc' = "raised"
                    /\ UNCHANGED <<cg_available, cg_candidate, cg_result>>
    /\ UNCHANGED <<cg_config, cg_attempt, cg_tried, cg_texts, cg_waits, others>>

\* lines 323-328: one attempt of a listed model
AttemptExact ==
    /\ cg_pc = "exact"
    /\ cg_candidate <= Len(cg_available)
    /\ \E bearer \in BearerChoices(cg_config), reply \in Replies :
        LET res == InvokeOnce(Credentials(bearer, cg_config.api_key), reply)
        IN  /\ Invoked(<<"", cg_available[cg_candidate]>>, bearer, reply)
            /\ IF Succeeded(res)
               THEN /\ cg_result' = res
                    /\ cg_pc' = "returned"
                    /\ UNCHANGED cg_candidate
               ELSE /\ cg_candidate' = cg_candidate + 1
                    /\ UNCHANGED <<cg_result, cg_pc>>
    /\ UNCHANGED <<cg_config, cg_attempt, cg_available, cg_waits, others>>

\* lines 332-333: every attempt failed
ReturnEmpty ==
    /\ cg_pc = "exact"
    /\ cg_candidate > Len(cg_available)
    /\ cg_result' = Str(<<>>)
    /\ cg_pc' = "returned"
    /\ UNCHANGED <<cg_config, cg_candidate, cg_attempt, cg_available, cg_tried, cg_texts,
                   cg_waits, cg_request, cg_http, others>>

CallNext ==
    \/ NextCandidate
    \/ CandidatesExhausted
    \/ AttemptsExhausted
    \/ Attempt
    \/ ListModels
    \/ AttemptExact
    \/ ReturnEmpty

SpecCall == CallInit /\ [][CallNext]_vars

\* the calls, the waits and the requests of the code all end
SpecCallFair == SpecCall /\ WF_vars(CallNext)


\* a text with a character that is not whitespace
HasContent(text) == \E i \in DOMAIN text : text[i] \notin Space

\* C12 as stated: no exception escapes _call_gpt, it returns a string, and
\* the string is empty if and only if no reply held a non-empty text.
C12_EmptyIffNoText ==
    /\ cg_pc # "raised"
    /\ cg_pc = "returned" =>
          /\ cg_result.t = "str"
          /\ cg_result.s = <<>> <=> cg_texts = {}

\* C12 as amended: no exception escapes _call_gpt, it returns a string, and
\* the string is empty if and only if no reply held a text with a character
\* that is not whitespace.
C12_EmptyIffNoContent ==
    /\ cg_pc # "raised"
    /\ cg_pc = "returned" =>
          /\ cg_result.t = "str"
          /\ cg_result.s = <<>> <=> ~\E text \in cg_texts : HasContent(text)

C12_Witness ==
    /\ cg_pc = "returned"
    /\ cg_result = Str(<<>>)
    /\ cg_request.kind = "list"
    /\ cg_request.reply = "network_error"
    /\ cg_texts = {<<" ", NL>>}

\* the candidate that attempt i of a call is made with
ExpectedCandidate(i) ==
    IF i <= cg_config.retries THEN <<"", ModelToUse>>
    ELSE IF i <= 2 * cg_config.retries THEN <<"models/", ModelToUse>>
    ELSE <<"", cg_available[i - 2 * cg_config.retries]>>

\* the attempts follow the retry policy, and none follows a success
RetryPolicy ==
    /\ Len(cg_tried) <= 2 * cg_config.retries + Len(cg_available)
    /\ \A i \in DOMAIN cg_tried : cg_tried[i] = ExpectedCandidate(i)
    /\ cg_pc # "returned" => ~\E text \in cg_texts : HasContent(text)
    /\ (cg_pc = "returned" /\ cg_result # Str(<<>>)) =>
          /\ cg_request.kind = "generate"
          /\ cg_request.reply = "text"
          /\ \E text \in cg_texts : HasContent(text) /\ cg_result = Str(Strip(text))
    /\ (cg_pc = "returned" /\ ~\E text \in cg_texts : HasContent(text)) =>
          cg_result = Str(<<>>)

\* C13: the candidates are tried in the order model id, 'models/<id>', each
\* with at most `retries` attempts, then each listed generation model once;
\* the call returns the text of the first attempt that succeeds and does
\* nothing after it; it always returns, after at most 2 * retries + N
\* attempts, with "" when every attempt failed.
C13_RetryPolicy ==
    /\ []RetryPolicy
    /\ [][cg_pc = "returned" => UNCHANGED vars]_vars
    /\ <>(cg_pc = "returned")

C13_Witness ==
    /\ cg_pc = "returned"
    /\ cg_config.retries = 2
    /\ Len(cg_available) = 2
    /\ Len(cg_tried) = 6
    /\ cg_http = 7
    /\ cg_result = Str(<<"ok">>)

\* C14: the wait after the failed attempt k of a candidate is
\* min(k * 1 s, 5 s): the waits of a candidate never decrease and never
\* exceed 5 s.
C14_Backoff ==
    \A i \in DOMAIN cg_waits :
        LET k == ((i - 1) % cg_config.retries) + 1
        IN  /\ cg_waits[i] = (IF k <= 5 THEN k * BaseDelay ELSE BackoffCap)
            /\ cg_waits[i] <= BackoffCap
            /\ k > 1 => cg_waits[i - 1] <= cg_waits[i]

C14_Witness ==
    /\ cg_config.retries >= 6
    /\ Len(cg_waits) = 2 * cg_config.retries
    /\ cg_waits[5] = BackoffCap
    /\ cg_waits[6] = BackoffCap
    /\ cg_waits[cg_config.retries + 1] = BaseDelay

C16_FailsFast ==
    (~cg_config.api_key /\ ~cg_config.service_account) =>
        /\ cg_http = 0
        /\ cg_waits = <<>>
        /\ cg_pc = "returned" => cg_result = Str(<<>>)


(***************************************************************************)
(* SpecPdf: extract_text_from_pdf on every input of at most MaxPages       *)
(* pages, each page giving text, giving none, or failing.                  *)
(***************************************************************************)
\* what page.extract_text() may do
PageOutcomes ==
    {[kind |-> "text", text |-> t] : t \in {Capital500, GwpAndOpinion, <<" ">>}}
    \cup {[kind |-> k, text |-> <<>>] : k \in {"none", "empty", "raises"}}

\* a failing page ends the extraction of the pages after it
PageTextOrStop(pages, i) ==
    IF \E j \in 1..i : pages[j].kind = "raises" THEN <<>> ELSE pages[i].text

\* lines 190-193: p = page.extract_text() or "", and "" when it raises
PageText(pages, i) == IF pages[i].kind = "text" THEN pages[i].text ELSE <<>>

\* lines 180-201 on the bytes and the outcome of each page
ExtractTextFromPdfBytes(pdf_file) ==
    ExtractTextFromPdf([readable |-> pdf_file.readable,
                        pages |-> [i \in DOMAIN pdf_file.pages |-> PageText(pdf_file.pages, i)]])

PdfInit ==
    /\ pdf \in [readable : BOOLEAN, pages : SeqsUpTo(PageOutcomes, MaxPages)]
    /\ pc = "extract"
    /\ chunk_max_chars = 0
    /\ gpt_max_workers = 0
    /\ full_text = <<>>
    /\ sd_chunks = <<>>
    /\ futures = <<>>
    /\ finished = {}
    /\ waiter = <<>>
    /\ sd_summaries = <<>>
    /\ llm_out = [kind |-> "none", text |-> "", obj |-> EmptyDict]
    /\ calls = [chunk_text |-> 0, summarize_chunk |-> 0, call_gpt |-> 0]
    /\ fs = FinancialSummary
    /\ ChunkIdle
    /\ AggIdle
    /\ LLMIdle
    /\ RestIdle

ExtractTextFromPdfCall ==
    /\ pc = "extract"
    /\ full_text' = ExtractTextFromPdfBytes(pdf)
    /\ pc' = "extracted"
    /\ UNCHANGED <<pdf, chunk_max_chars, gpt_max_workers, sd_chunks, futures, finished,
                   waiter, sd_summaries, llm_out, calls, fs, ctvars, agvars, llmvars, restvars>>

SpecPdf == PdfInit /\ [][ExtractTextFromPdfCall]_vars

\* the places of the pages that gave text
TextPages == {i \in DOMAIN pdf.pages : pdf.pages[i].kind = "text" /\ pdf.pages[i].text # <<>>}

\* the texts of the pages at the places S, in page order, a blank line between
RECURSIVE InPageOrder(_)
InPageOrder(S) ==
    IF S = {} THEN <<>>
    ELSE LET last == CHOOSE i \in S : \A j \in S : j <= i
         IN  IF S = {last} THEN pdf.pages[last].text
             ELSE InPageOrder(S \ {last}) \o <<NL, NL>> \o pdf.pages[last].text

\* C21: extract_text_from_pdf returns a text whatever the pages do: the texts
\* of the pages that gave text, in page order with a blank line between, and
\* "" for bytes that cannot be read.
C21_PdfTextOfGoodPages ==
    pc = "extracted" =>
        full_text = IF pdf.readable THEN InPageOrder(TextPages) ELSE <<>>

C21_Witness ==
    /\ pc = "extracted"
    /\ pdf.readable
    /\ Len(pdf.pages) = 2
    /\ pdf.pages[1].kind = "raises"
    /\ full_text = GwpAndOpinion


(***************************************************************************)
(* SpecParse: parse_number on every token made of at most MaxBody          *)
(* characters of a number, plain, in parentheses or with a scale suffix.   *)
(***************************************************************************)
BodyChars == {"5", "0", ".", ","}

Forms == {"plain", "parens", "k", "m", "b", "thousand", "million", "billion"}

\* the token of a body written in a form
Token(body, form) ==
    CASE form = "plain" -> body
      [] form = "parens" -> <<"(">> \o body \o <<")">>
      [] form \in {"k", "m", "b"} -> body \o <<form>>
      [] OTHER -> body \o <<" ", form>>

ParseInit ==
    /\ pn_in \in [body : SeqsUpTo(BodyChars, MaxBody), form : Forms]
    /\ pn_out = NoneV
    /\ pn_pc = "call"
    /\ ChunkIdle
    /\ AggIdle
    /\ DocumentIdle
    /\ LLMIdle
    /\ AgentIdle
    /\ SubmitIdle
    /\ ReviewIdle

ParseNumberCall ==
    /\ pn_pc = "call"
    /\ pn_out' = ParseNumber(Token(pn_in.body, pn_in.form))
    /\ pn_pc' = "done"
    /\ UNCHANGED <<pn_in, ctvars, agvars, sdvars, llmvars, gavars, sbvars, rvvars>>

SpecParse == ParseInit /\ [][ParseNumberCall]_vars

\* the multiplier that a scale suffix stands for
Scale(form) ==
    CASE form \in {"k", "thousand"} -> 1000
      [] form \in {"m", "million"} -> 1000000
      [] form \in {"b", "billion"} -> 1000000000

\* C23: for a token with a trailing k/m/b or thousand/million/billion,
\* parse_number returns the number before the suffix multiplied by 1e3, 1e6
\* or 1e9, once.
C23_ScaleSuffix ==
    (/\ pn_pc = "done"
     /\ pn_in.form \notin {"plain", "parens"}
     /\ ParseNumber(pn_in.body) # NoneV) =>
        /\ pn_out # NoneV
        /\ pn_out.v % Scale(pn_in.form) = 0
        /\ pn_out.v \div Scale(pn_in.form) = ParseNumber(pn_in.body).v

\* C24: parse_number returns the negative of the number for a token in
\* parentheses, and None when cleaning leaves nothing of the token.
C24_ParenthesesNegate ==
    pn_pc = "done" =>
        /\ (pn_in.form = "parens" /\ ParseNumber(pn_in.body) # NoneV) =>
                pn_out = Num(0 - ParseNumber(pn_in.body).v)
        /\ CleanNumber(Token(pn_in.body, pn_in.form)) = <<>> => pn_out = NoneV


\* C22: the labeled-regex tier works on a chunk only after the LLM was
\* called for that chunk: every chunk that summarize_chunk took was handed
\* to _call_gpt first.
C22_LLMTierFirst == calls.summarize_chunk <= calls.call_gpt


(***************************************************************************)
(* SpecAgent: GPTComplianceAgent(model) is constructed (lines 169-178) for *)
(* every GEMINI_MODEL setting, with and without the argument, the cache    *)
(* set or not, the list request served or not.                             *)
(***************************************************************************)
\* lines 47-76 in one thread: the model returned for cache c
AvailableModel(c, served, entries) ==
    IF CacheSet(c) THEN c
    ELSE IF served THEN PickModel(ListGeminiModels(entries, TRUE))
    ELSE NoneV

\* lines 170-175: self.model
AgentModel(gemini_model, model, available) ==
    IF model # NoneV THEN model
    ELSE IF available # NoneV THEN available
    ELSE Str(gemini_model)

AgentInit ==
    /\ ga_in \in [gemini_model : {Gemini25Flash, Gemini15Pro, Gemini20Flash},
                  model : {NoneV, Str(Gemini20Flash)},
                  served : BOOLEAN]
    /\ ga_model = NoneV
    /\ ga_pc = "construct"
    /\ cache \in {NoneV, Str(Gemini25Pro)}
    /\ catalogue \in ListedCatalogues
    /\ threads = <<>>
    /\ writes = 0
    /\ ChunkIdle
    /\ AggIdle
    /\ DocumentIdle
    /\ PickIdle
    /\ CallIdle
    /\ ParseIdle
    /\ SubmitIdle
    /\ ReviewIdle

\* lines 169-178: __init__
Construct ==
    /\ ga_pc = "construct"
    /\ LET available == AvailableModel(cache, ga_in.served, catalogue)
           discovers == ga_in.model = NoneV
       IN  /\ ga_model' = AgentModel(ga_in.gemini_model, ga_in.model,
                                     IF discovers THEN available ELSE NoneV)
           /\ IF discovers /\ ~CacheSet(cache) /\ available # NoneV
              THEN cache' = available /\ writes' = writes + 1
              ELSE UNCHANGED <<cache, writes>>
    /\ ga_pc' = "constructed"
    /\ UNCHANGED <<ga_in, catalogue, threads, ctvars, agvars, sdvars, pkvars, cgvars,
                   pnvars, sbvars, rvvars>>

SpecAgent == AgentInit /\ [][Construct]_vars

\* C25: an agent constructed without a model argument uses the model that
\* GEMINI_MODEL configures, whatever model discovery returns.
C25_ConfiguredModelUsed ==
    (ga_pc = "constructed" /\ ga_in.model = NoneV) => ga_model = Str(ga_in.gemini_model)



(***************************************************************************)
(* SpecSubmit: one request to /api/submit-data (routes/submit_data.py).    *)
(* A float of the route is a Num in hundredths or NaN.                     *)
(***************************************************************************)
NaN == [t |-> "nan"]

\* what an operator gives where the Python code raises
PyRaises == [t |-> "raises"]

\* parse_human_number, lines 467-488, for None, a number or a string
\* without capitals: the commas go, then the longest run of digits and "."
\* at the start is the number and k, m, bn or a word after it the unit;
\* a string that does not start with such a run goes to float()
HumanUnit(rest) ==
    IF rest = <<>> THEN 1
    ELSE IF Head(rest) \in {"k", "thousand"} THEN 1000
    ELSE IF Head(rest) \in {"m", "million"} THEN 1000000
    ELSE IF Head(rest) = "billion" \/ SubSeq(rest, 1, 2) = <<"b", "n">> THEN 1000000000
    ELSE 1

ParseHumanNumber(value) ==
    IF value = NoneV THEN NoneV
    ELSE IF value.t \in {"num", "nan"} THEN value
    ELSE LET noCommas == SelectSeq(value.s, LAMBDA c : c # ",")
             s == SubSeq(noCommas, SkipWhile(noCommas, 1, {" "}), Len(noCommas))
             end == SkipWhile(s, 1, Digits \cup {"."})
             number == UnsignedDecimal(SubSeq(s, 1, end - 1))
             rest == SubSeq(s, SkipWhile(s, end, {" "}), Len(s))
         IN  IF end = 1
             THEN IF s = <<"n", "a", "n">> THEN NaN ELSE FloatOf(s)
             ELSE IF number = NoneV THEN PyRaises
             ELSE Num(number.v * HumanUnit(rest))

\* Python's truth value of a value of a request
RequestTruthy(x) ==
    CASE x.t = "str" -> x.s # <<>>
      [] x.t = "nan" -> TRUE
      [] x.t \in {"dict", "list"} -> TRUE
      [] OTHER -> Truthy(x)

\* lines 148-157: parse_human_number(raw) or 0 for a raw value that is
\* given, None for one that is not
ManualValue(raw) ==
    IF ~RequestTruthy(raw) THEN NoneV
    ELSE LET parsed == ParseHumanNumber(raw)
         IN  IF parsed = PyRaises \/ RequestTruthy(parsed) THEN parsed ELSE Num(0)

\* lines 160-164: a value that is None or 0 is filled from ai_metrics[key]
\* when that is neither None nor 0; float() of what is no number raises
AiFilled(value, ai_metrics, key) ==
    LET ai == Get(ai_metrics, key, NoneV)
    IN  IF ai_metrics # EmptyDict /\ value \in {NoneV, Num(0)} /\ ai \notin {NoneV, Num(0)}
        THEN IF ai.t \in {"num", "nan"} THEN ai ELSE PyRaises
        ELSE value

\* lines 188-189: float(value) if value not in (None, '') else 0
NumericDefault(value) == IF value = NoneV THEN Num(0) ELSE value

\* lines 166-167 and 192 for a form without gwp
GwpValue(ai_metrics) ==
    LET ai == Get(ai_metrics, "gwp", NoneV)
    IN  IF ai_metrics # EmptyDict /\ ai # NoneV /\ RequestTruthy(ai)
        THEN ParseHumanNumber(ai) ELSE NoneV

\* x <= 0 and x > 0 for a float: both are false for NaN
NotPositive(x) == x.t = "num" /\ x.v <= 0
Positive(x) == x.t = "num" /\ x.v > 0

\* line 228: capital * 0.7
EstimatedLiabilities(capital) ==
    IF capital = NaN THEN NaN ELSE Num((capital.v * 7) \div 10)

\* line 241: the ratio in percent as the fraction num / den, unrounded
RouteSolvencyRatio(capital, liabilities) ==
    IF ~Positive(liabilities) THEN Num(0)
    ELSE IF capital = NaN THEN NaN
    ELSE [t |-> "frac", num |-> (capital.v - liabilities.v) * 100, den |-> liabilities.v]

\* lines 92-112: the metrics of the summary that summarize_document makes
\* of the uploaded statement; {} without a statement, for a summary without
\* metrics and when the call raises
AiMetrics(statement) ==
    IF statement = NoneV \/ statement.text = <<>> THEN EmptyDict
    ELSE LET chunks == ChunkText(statement.text, 3000)
             summaries == [i \in DOMAIN chunks |-> SummarizeChunk(chunks[i])]
             m == Get(SynthesizeSummaries(statement.reply), "metrics", Dict(EmptyDict))
         IN  IF MergeRaises(m) THEN EmptyDict
             ELSE MergeMetrics(m, ExtractStructuredMetrics(summaries)).d

\* lines 148-192: capital, liabilities and gwp as the route converts them
ConvertedValues(in, ai_metrics) ==
    [capital |-> NumericDefault(AiFilled(ManualValue(in.capital), ai_metrics, "capital")),
     liabilities |-> NumericDefault(AiFilled(ManualValue(in.liabilities), ai_metrics, "liabilities")),
     gwp |-> GwpValue(ai_metrics)]

\* lines 262-300: the record of the submission, by the columns that the
\* request of the model decides
SubmissionRecord(in, capital, liabilities, gwp) ==
    [insurer_id |-> in.insurer_id.s,
     capital |-> capital,
     liabilities |-> liabilities,
     solvency_ratio |-> RouteSolvencyRatio(capital, liabilities),
     status |-> "INSURER_SUBMITTED",
     gwp |-> gwp]

\* lines 123-143 and 210-311 for the converted values v
Validated(in, v) ==
    LET Response(code, error) == [code |-> code, error |-> error]
    IN  IF ~RequestTruthy(in.insurer_id)
        THEN [resp |-> Response(400, "Missing required field: insurer_id"), record |-> NoneV]
        ELSE IF ~AllDigits(in.insurer_id.s)
        THEN [resp |-> Response(400, "Invalid or missing insurer_id"), record |-> NoneV]
        ELSE IF PyRaises \in {v.capital, v.liabilities, v.gwp}
        THEN [resp |-> Response(400, "Invalid financial values provided"), record |-> NoneV]
        ELSE IF NotPositive(v.capital)
        THEN [resp |-> Response(400, "Capital must be a positive value"), record |-> NoneV]
        ELSE IF ~in.db_ok
        THEN [resp |-> Response(500, "Database error"), record |-> NoneV]
        ELSE [resp |-> Response(200, ""),
              record |-> SubmissionRecord(in, v.capital,
                                          IF NotPositive(v.liabilities)
                                          THEN EstimatedLiabilities(v.capital)
                                          ELSE v.liabilities,
                                          v.gwp)]

\* lines 92-311: the response of the route and the record it stores, None
\* when it stores none
SubmitOutcome(in) == Validated(in, ConvertedValues(in, AiMetrics(in.statement)))

\* the raw values of capital and liabilities in the requests of the model
RawValues ==
    {NoneV, Str(<<>>), Str(<<"0">>), Str(<<"5", "0", "0">>), Str(<<"-", "5">>),
     Str(<<"n", "a", "n">>), Str(<<"a", "b", "c">>), Str(<<"1", ".", "2", ".", "3">>),
     Str(<<"2", "k">>)}

\* the LLM replies to the synthesis of an uploaded statement
StatementReplies ==
    {[kind |-> "empty", text |-> "", obj |-> EmptyDict],
     [kind |-> "json", text |-> "{\"metrics\": null}", obj |-> ("metrics" :> NoneV)],
     [kind |-> "json", text |-> "{\"metrics\": {\"capital\": 7, \"gwp\": 2}}",
      obj |-> ("metrics" :> Dict(("capital" :> Num(700)) @@ ("gwp" :> Num(200))))]}

Statements ==
    {NoneV} \cup [text : {<<>>, Capital500, Capital900Liabilities400}, reply : StatementReplies]

SubmitInit ==
    /\ sb_in \in [insurer_id : {NoneV, Str(<<"a">>), Str(<<"7">>)},
                  capital : RawValues,
                  liabilities : RawValues,
                  statement : Statements,
                  db_ok : BOOLEAN]
    /\ sb_db = <<>>
    /\ sb_resp = NoneV
    /\ ChunkIdle
    /\ AggIdle
    /\ DocumentIdle
    /\ LLMIdle
    /\ ParseIdle
    /\ AgentIdle
    /\ ReviewIdle

\* the route answers the request
SubmitData ==
    /\ sb_resp = NoneV
    /\ LET outcome == SubmitOutcome(sb_in)
       IN  /\ sb_resp' = outcome.resp
           /\ sb_db' = IF outcome.record = NoneV THEN sb_db ELSE Append(sb_db, outcome.record)
    /\ UNCHANGED <<sb_in, ctvars, agvars, sdvars, llmvars, pnvars, gavars, rvvars>>

SpecSubmit == SubmitInit /\ [][SubmitData]_vars

\* the value that the pipeline extracted from the statement for a key: the
\* entry of metrics.financials, where summarize_document puts it
Extracted(statement, key) ==
    LET financials == Get(AiMetrics(statement), "financials", Dict(EmptyDict))
    IN  Get(financials.d, key, NoneV)

\* C27: the capital (and likewise the liabilities) stored for a submission
\* with an uploaded statement is the manually entered value when one is
\* given and non-zero; otherwise it is the value the AI pipeline extracted
\* for that key, whenever the pipeline resolved a non-null, non-zero value.
C27_ManualThenExtracted ==
    (sb_resp # NoneV /\ sb_in.statement # NoneV /\ sb_in.db_ok
        /\ RequestTruthy(sb_in.insurer_id) /\ AllDigits(sb_in.insurer_id.s)) =>
        \A key \in {"capital", "liabilities"} :
            LET manual == ManualValue(sb_in[key])
                extracted == Extracted(sb_in.statement, key)
            IN  /\ (manual.t = "num" /\ manual.v > 0 /\ Len(sb_db) = 1) =>
                        sb_db[1][key] = manual
                /\ (manual \in {NoneV, Num(0)} /\ extracted \notin {NoneV, Num(0)}
                        /\ ManualValue(sb_in.capital) # PyRaises
                        /\ ManualValue(sb_in.liabilities) # PyRaises) =>
                        Len(sb_db) = 1 /\ sb_db[1][key] = extracted

\* C30: every submission record that the route stores has capital > 0,
\* liabilities > 0 and the status INSURER_SUBMITTED: a request whose capital
\* is not positive is answered with an error and stores nothing, and
\* liabilities that are missing or not positive are replaced by
\* 0.7 * capital before the ratio is computed and the record is stored.
C30_StoredValuesPositive ==
    \A i \in DOMAIN sb_db :
        /\ Positive(sb_db[i].capital)
        /\ Positive(sb_db[i].liabilities)
        /\ sb_db[i].status = "INSURER_SUBMITTED"



(***************************************************************************)
(* SpecReview: one request to /api/regulator/approve-submission or         *)
(* /api/regulator/reject-submission (routes/regulator_routes.py), with     *)
(* its commits as separate steps.                                          *)
(***************************************************************************)
\* the columns of Notification that are nullable=False and have no default
\* (database/models.py, lines 168-172)
NotificationRequired == {"recipient_id", "sender_id", "message", "urgency"}

\* the INSERT of a row violates a NOT NULL constraint
InsertFails(row) == \E c \in NotificationRequired : row[c] = NoneV

\* lines 319-342: the Notification that _set_status_and_commit builds
NotificationFor(submission, action) ==
    [recipient_id |-> Num(submission.insurer_id),
     message |-> Str(<<"your submission was ", action, " by the regulator">>),
     sender_id |-> NoneV,
     urgency |-> Str(<<"high">>),
     status |-> Str(<<"UNREAD">>)]

\* lines 310-316 and 385-391: the status, its timestamp and the comment
Reviewed(submission, action, comment, now) ==
    [submission EXCEPT
        !.status = IF action = "approved" THEN "REGULATOR_APPROVED" ELSE "REGULATOR_REJECTED",
        !.regulator_approved_at = IF action = "approved" THEN Num(now) ELSE @,
        !.regulator_rejected_at = IF action = "rejected" THEN Num(now) ELSE @,
        !.regulator_comments = comment]

\* lines 365-381: the first label of the DB enum that holds the keyword
ChosenLabel(labels, action) ==
    LET key == IF action = "approved" THEN "APPROVE" ELSE "REJECT"
        holds == {i \in DOMAIN labels : labels[i].key = key}
    IN  IF holds = {} THEN NoneV ELSE Str(labels[CHOOSE i \in holds : \A j \in holds : i <= j].label)

\* the labels of the enum submissionstatus in the database
EnumLabels ==
    <<[label |-> "INSURER_SUBMITTED", key |-> "SUBMIT"],
      [label |-> "REGULATOR_APPROVED", key |-> "APPROVE"],
      [label |-> "REGULATOR_REJECTED", key |-> "REJECT"]>>

\* the stored submission before the request
StoredSubmissions ==
    {[insurer_id |-> 7, status |-> "INSURER_SUBMITTED", regulator_approved_at |-> NoneV,
      regulator_rejected_at |-> NoneV, regulator_comments |-> NoneV],
     [insurer_id |-> 7, status |-> "REGULATOR_APPROVED", regulator_approved_at |-> Num(0),
      regulator_rejected_at |-> NoneV, regulator_comments |-> Str(<<"fine">>)],
     [insurer_id |-> 7, status |-> "REGULATOR_REJECTED", regulator_approved_at |-> NoneV,
      regulator_rejected_at |-> Num(0), regulator_comments |-> NoneV]}

ReviewInit ==
    /\ rv_in \in [action : {"approved", "rejected"},
                  submission_id : {"missing", "unknown", "known"},
                  comments : {NoneV, Str(<<"ok">>)},
                  commit_ok : BOOLEAN,
                  labels : {<<>>, EnumLabels},
                  fallback_ok : BOOLEAN,
                  db_up : BOOLEAN,
                  now : {1}]
    /\ rv_db \in [submission : StoredSubmissions, notifications : {<<>>}]
    /\ rv_resp = NoneV
    /\ rv_pc = "request"
    /\ ChunkIdle
    /\ AggIdle
    /\ DocumentIdle
    /\ LLMIdle
    /\ ParseIdle
    /\ AgentIdle
    /\ SubmitIdle

ReviewOthers == <<ctvars, agvars, sdvars, llmvars, pnvars, gavars, sbvars>>

\* lines 443-451 and 464-472: the request is refused or the submission found
Lookup ==
    /\ rv_pc = "request"
    /\ CASE rv_in.submission_id = "missing" ->
                rv_resp' = [code |-> 400, success |-> FALSE] /\ rv_pc' = "done"
         [] rv_in.submission_id = "unknown" ->
                rv_resp' = [code |-> 404, success |-> FALSE] /\ rv_pc' = "done"
         [] OTHER -> rv_resp' = rv_resp /\ rv_pc' = "set"
    /\ UNCHANGED <<rv_in, rv_db, ReviewOthers>>

\* lines 308-317: the enum member is assigned and committed
CommitStatus ==
    /\ rv_pc = "set"
    /\ rv_in.commit_ok
    /\ rv_db' = [rv_db EXCEPT !.submission = Reviewed(@, rv_in.action, rv_in.comments, rv_in.now)]
    /\ rv_pc' = "notify"
    /\ UNCHANGED <<rv_in, rv_resp, ReviewOthers>>

\* lines 358-363: the commit fails and is rolled back
CommitFails ==
    /\ rv_pc = "set"
    /\ ~rv_in.commit_ok
    /\ rv_pc' = "fallback"
    /\ UNCHANGED <<rv_in, rv_db, rv_resp, ReviewOthers>>

\* lines 365-392 and 428-439: the label of the DB enum is assigned and
\* committed; without a label or when this commit fails too the error is
\* raised, and the route answers 500 (lines 457-459, 480-482)
Fallback ==
    /\ rv_pc = "fallback"
    /\ IF ChosenLabel(rv_in.labels, rv_in.action) # NoneV /\ rv_in.fallback_ok
       THEN /\ rv_db' = [rv_db EXCEPT !.submission =
                            Reviewed(@, rv_in.action, rv_in.comments, rv_in.now)]
            /\ rv_pc' = "notify"
            /\ rv_resp' = rv_resp
       ELSE /\ rv_db' = rv_db
            /\ rv_pc' = "done"
            /\ rv_resp' = [code |-> 500, success |-> FALSE]
    /\ UNCHANGED <<rv_in, ReviewOthers>>

\* lines 319-356 and 394-426: the notification is added and committed; a
\* failure is rolled back and swallowed
Notify ==
    /\ rv_pc = "notify"
    /\ LET n == NotificationFor(rv_db.submission, rv_in.action)
       IN  rv_db' = IF rv_in.db_up /\ ~InsertFails(n)
                    THEN [rv_db EXCEPT !.notifications = Append(@, n)]
                    ELSE rv_db
    /\ rv_pc' = "respond"
    /\ UNCHANGED <<rv_in, rv_resp, ReviewOthers>>

\* lines 455-456 and 478-479
Respond ==
    /\ rv_pc = "respond"
    /\ rv_resp' = [code |-> 200, success |-> TRUE]
    /\ rv_pc' = "done"
    /\ UNCHANGED <<rv_in, rv_db, ReviewOthers>>

ReviewNext == Lookup \/ CommitStatus \/ CommitFails \/ Fallback \/ Notify \/ Respond

SpecReview == ReviewInit /\ [][ReviewNext]_vars

\* the status change of the request and its regulator timestamp are stored
StatusChangeStored ==
    IF rv_in.action = "approved"
    THEN /\ rv_db.submission.status = "REGULATOR_APPROVED"
         /\ rv_db.submission.regulator_approved_at = Num(rv_in.now)
    ELSE /\ rv_db.submission.status = "REGULATOR_REJECTED"
         /\ rv_db.submission.regulator_rejected_at = Num(rv_in.now)

\* C28: after every successful approve-submission or reject-submission
\* request a Notification addressed to the insurer of the submission is
\* stored; and whether or not it can be stored, the committed status change
\* and its regulator timestamp stay in place and the request reports
\* success.
C28_NotificationStored ==
    /\ (rv_pc = "done" /\ rv_resp.success /\ rv_in.db_up) =>
            \E i \in DOMAIN rv_db.notifications :
                rv_db.notifications[i].recipient_id = Num(rv_db.submission.insurer_id)
    /\ (rv_pc = "done" /\ rv_resp.success) => StatusChangeStored
    /\ rv_pc = "respond" => StatusChangeStored

\* the second half of C28 alone
C28_StatusChangeStays ==
    /\ (rv_pc = "done" /\ rv_resp.success) => StatusChangeStored
    /\ rv_pc = "respond" => StatusChangeStored



(***************************************************************************)
(* The summary of a document as a function of the chunk results and of     *)
(* the LLM reply, to compare two runs on one document (checked under Spec).*)
(***************************************************************************)
\* lines 586-599: the metrics of the summary made of the chunk results
\* summaries with the LLM reply out, for a reply with which the call returns
MetricsWith(summaries, out) ==
    MergeMetrics(Get(SynthesizeSummaries(out), "metrics", Dict(EmptyDict)),
                 ExtractStructuredMetrics(summaries))

\* summarize_document returns with the reply out
ReturnsWith(out) == ~MergeRaises(Get(SynthesizeSummaries(out), "metrics", Dict(EmptyDict)))

\* a key that a dict does not hold
Absent == [t |-> "absent"]

\* the entries of a metrics mapping under a canonical key: the entry of the
\* mapping itself, which the spec describes and submit_data.py reads, and
\* the entry of metrics["financials"]
MetricsEntry(metrics, key) == Get(metrics.d, key, Absent)
FinancialsEntry(metrics, key) == Get(Get(metrics.d, "financials", Dict(EmptyDict)).d, key, Absent)

\* C29: the canonical metric values that summarize_document produces do not
\* depend on what the LLM returns: the run that returned and a run on the
\* same document with the same order of chunk results and any other LLM
\* reply with which it returns give the same value for each of the 13
\* canonical keys.
C29_CanonicalIndependentOfLLM ==
    (Returned /\ full_text # <<>>) =>
        /\ fs.metrics = MetricsWith(sd_summaries, llm_out)
        /\ \A out \in LLMReplies : ReturnsWith(out) =>
               \A key \in Canonical :
                   /\ MetricsEntry(fs.metrics, key) = MetricsEntry(MetricsWith(sd_summaries, out), key)
                   /\ FinancialsEntry(fs.metrics, key) = FinancialsEntry(MetricsWith(sd_summaries, out), key)

\* the part of C29 that holds: the entries of metrics["financials"] are
\* those of extract_structured_metrics, whatever the LLM returns
C29_FinancialsIndependentOfLLM ==
    (Returned /\ full_text # <<>>) =>
        /\ fs.metrics = MetricsWith(sd_summaries, llm_out)
        /\ \A out \in LLMReplies : ReturnsWith(out) =>
               \A key \in Canonical :
                   FinancialsEntry(fs.metrics, key) = FinancialsEntry(MetricsWith(sd_summaries, out), key)

=============================================================================
